---- MODULE Spec2Model ----
(***************************************************************************)
(* A model of pg-rules: RulesExecutionService.applyRules applies a batch   *)
(* of match -> apply rules to a table as priority-ordered UPDATE           *)
(* statements inside one transaction.                                      *)
(*                                                                         *)
(* Text is modelled as a sequence of one-character strings so that the     *)
(* regular-expression predicates can be evaluated character by character.  *)
(* Every SQL value is a tagged record [t, s, n, l]: t is the type tag,     *)
(* s the text, n the number (booleans are 0/1), l a JSON list of names.    *)
(***************************************************************************)
EXTENDS Integers, Sequences, FiniteSets, TLC

(***************************************************************************)
(* Bounds of the model.                                                    *)
(***************************************************************************)
\* longest rules array passed to one applyRules call
MaxBatch == 2
\* number of applyRules calls made on one engine
MaxCalls == 1
\* number of applyRules calls made one after the other on a tracked table
MaxTrackedCalls == 2

(***************************************************************************)
(* SQL / JavaScript values.                                                *)
(***************************************************************************)
Null == [t |-> "null", s |-> <<>>, n |-> 0, l |-> <<>>]
Str(chars) == [t |-> "str", s |-> chars, n |-> 0, l |-> <<>>]
Num(k) == [t |-> "num", s |-> <<>>, n |-> k, l |-> <<>>]
Bool(b) == [t |-> "bool", s |-> <<>>, n |-> IF b THEN 1 ELSE 0, l |-> <<>>]
JsonList(names) == [t |-> "json", s |-> <<>>, n |-> 0, l |-> names]

\* the empty mapping {} of a match or apply object
EmptyObject == <<>>

(***************************************************************************)
(* Text constants of the test fixtures and rules.                          *)
(***************************************************************************)
admin == <<"a", "d", "m", "i", "n">>
Admin == <<"A", "d", "m", "i", "n">>
ADMIN == <<"A", "D", "M", "I", "N">>
administrator == admin \o <<"i", "s", "t", "r", "a", "t", "o", "r">>
moderator == <<"m", "o", "d", "e", "r", "a", "t", "o", "r">>
user == <<"u", "s", "e", "r">>
active == <<"a", "c", "t", "i", "v", "e">>
inactive == <<"i", "n">> \o active
pending == <<"p", "e", "n", "d", "i", "n", "g">>
vip == <<"v", "i", "p">>
staff == <<"s", "t", "a", "f", "f">>
verified == <<"v", "e", "r", "i", "f", "i", "e", "d">>
john == <<"j", "o", "h", "n">>
jane == <<"j", "a", "n", "e">>
bob == <<"b", "o", "b">>
alice == <<"a", "l", "i", "c", "e">>
charlie == <<"c", "h", "a", "r", "l", "i", "e">>
dup == <<"d", "u", "p">>

(***************************************************************************)
(* The users table of the tests.  email is UNIQUE NOT NULL; appliedRules   *)
(* is the JSON tracking column.                                            *)
(***************************************************************************)
Columns == {"email", "role", "status", "age", "priority", "isVerified", "phone", "appliedRules"}

UserRow(em, ro, st, ag, pr, ve, ph) ==
    [email |-> Str(em), role |-> Str(ro), status |-> Str(st), age |-> Num(ag),
     priority |-> Num(pr), isVerified |-> Bool(ve), phone |-> Str(ph),
     appliedRules |-> Null]

\* TEST_USERS: the five rows inserted before each RulesService test (the e-mail
\* addresses cut to their local part, the phone numbers to "+9" and the last
\* digit; the name and timestamp columns, which no rule of the model reads or
\* writes, are left out)
TEST_USERS ==
    << UserRow(john, user, active, 30, 1, TRUE, <<"+", "9", "0">>),
       UserRow(jane, admin, active, 25, 2, FALSE, <<"+", "9", "1">>),
       UserRow(bob, user, inactive, 35, 3, TRUE, <<"+", "9", "2">>),
       UserRow(alice, moderator, active, 28, 1, TRUE, <<"+", "9", "3">>),
       UserRow(charlie, user, pending, 22, 5, FALSE, <<"+", "9", "4">>) >>

\* the rows of the case-sensitivity test, plus a role that contains "admin"
CASE_USERS ==
    << UserRow(john, Admin, active, 25, 1, TRUE, <<"9", "0">>),
       UserRow(jane, admin, inactive, 30, 0, FALSE, <<"9", "0", "1">>),
       UserRow(bob, ADMIN, pending, 25, 0, TRUE, <<>>),
       UserRow(alice, administrator, active, 28, 0, TRUE, <<"+", "9">>) >>

Fixtures == {TEST_USERS, CASE_USERS}

\* rows with the nullable columns phone and status left out of the INSERT, and
\* a row whose phone is the empty string
NULL_USERS ==
    << [UserRow(john, user, active, 30, 1, TRUE, <<>>) EXCEPT !.phone = Null],
       UserRow(jane, admin, active, 25, 2, FALSE, <<>>),
       [UserRow(bob, user, active, 35, 3, TRUE, <<"+", "9", "2">>) EXCEPT !.status = Null] >>

(***************************************************************************)
(* Rules.  A rule is what MatchRuleFactory.createRule returns: a name, a   *)
(* priority, a match mapping and an apply mapping (column -> value).       *)
(***************************************************************************)
Rule(name, prio, match, apply) ==
    [ruleName |-> name, priority |-> prio, match |-> match, apply |-> apply]

\* the rules the calls of the model draw their batches from
RulePool ==
    << Rule("high-priority-boost", 1, ("priority" :> Num(1)), ("status" :> Str(vip))),
       Rule("boost-priority", 0, ("status" :> Str(active)), ("priority" :> Num(10))),
       Rule("role-staff-rule", 0, ("role" :> Str(admin \o <<"|">> \o moderator)),
            ("status" :> Str(staff))),
       Rule("non-string-rule", 1, ("age" :> Num(25) @@ "isVerified" :> Bool(TRUE)),
            ("status" :> Str(verified))),
       Rule("empty-match", 0, EmptyObject, ("status" :> Str(vip))),
       Rule("empty-apply", 0, ("role" :> Str(user)), EmptyObject),
       Rule("duplicate-email", 1, ("phone" :> Str(<<"9", "0">>)), ("email" :> Str(dup))) >>

RECURSIVE SeqsUpTo(_, _)
\* all sequences over S of length at most n
SeqsUpTo(S, n) ==
    IF n = 0 THEN {<<>>}
    ELSE LET shorter == SeqsUpTo(S, n - 1)
         IN shorter \cup {Append(q, x) : q \in shorter, x \in S}

\* the rules arrays a caller may pass (as positions of RulePool)
Batches == SeqsUpTo(1..Len(RulePool), MaxBatch)

RulesOf(batch) == [i \in 1..Len(batch) |-> RulePool[batch[i]]]

\* the rules of the calls made one after the other: r2 matches the value r1
\* writes, r3 gives a row that r1 has updated the e-mail address of another
\* row, r4 has the priority of r2 and matches the row r1 matches
TrackedRules ==
    << Rule("r1", 0, ("role" :> Str(admin)), ("status" :> Str(vip))),
       Rule("r2", 1, ("status" :> Str(vip)), ("priority" :> Num(10))),
       Rule("r3", 1, ("status" :> Str(vip)), ("email" :> Str(bob))),
       Rule("r4", 1, ("email" :> Str(jane)), ("age" :> Num(26))) >>

TrackedBatches == SeqsUpTo(1..Len(TrackedRules), MaxBatch)

TrackedRulesOf(batch) == [i \in 1..Len(batch) |-> TrackedRules[batch[i]]]

\* the whereConditions arguments of clearAppliedRules and getRowsWithAppliedRules
\* (the first stands for an omitted argument)
Filters ==
    { EmptyObject,
      ("email" :> Str(jane)),
      ("status" :> Str(active)),
      ("role" :> Str(admin \o <<"|">> \o moderator)) }

(***************************************************************************)
(* Regular expressions: the subset made of literal characters, the         *)
(* wildcard ".", top-level alternation "|" and the anchors "^" and "$".    *)
(* Both RegExp.prototype.test and the PostgreSQL operator ~ search for a   *)
(* match anywhere in the subject, case-sensitively.                        *)
(***************************************************************************)
FirstBar(p) == CHOOSE k \in 1..Len(p) : p[k] = "|" /\ \A j \in 1..(k - 1) : p[j] # "|"

RECURSIVE Alternatives(_)
Alternatives(p) ==
    IF \A k \in 1..Len(p) : p[k] # "|" THEN {p}
    ELSE {SubSeq(p, 1, FirstBar(p) - 1)} \cup Alternatives(SubSeq(p, FirstBar(p) + 1, Len(p)))

Lower(ch) ==
    CASE ch = "A" -> "a" [] ch = "D" -> "d" [] ch = "M" -> "m"
      [] ch = "I" -> "i" [] ch = "N" -> "n" [] OTHER -> ch

\* a case-insensitive comparison (the operator ~* instead of ~)
CharMatchesIgnoreCase(pch, ch) == pch = "." \/ Lower(pch) = Lower(ch)

\* one pattern character against one subject character (case-sensitive)
CharMatches(pch, ch) == pch = "." \/ pch = ch

\* a match of the whole subject instead of a search in it
BranchMatchesAnchored(b, s) ==
    LET body == IF Len(b) > 0 /\ b[1] = "^" THEN Tail(b) ELSE b
        core == IF Len(body) > 0 /\ body[Len(body)] = "$"
                THEN SubSeq(body, 1, Len(body) - 1) ELSE body
    IN  /\ Len(core) = Len(s)
        /\ \A k \in 1..Len(core) : CharMatches(core[k], s[k])

\* does branch b (one alternative) match somewhere in s
BranchMatches(b, s) ==
    LET atStart == Len(b) > 0 /\ b[1] = "^"
        body == IF atStart THEN Tail(b) ELSE b
        atEnd == Len(body) > 0 /\ body[Len(body)] = "$"
        core == IF atEnd THEN SubSeq(body, 1, Len(body) - 1) ELSE body
    IN  \E i \in 1..(Len(s) + 1) :
            /\ atStart => i = 1
            /\ i + Len(core) - 1 <= Len(s)
            /\ atEnd => i + Len(core) - 1 = Len(s)
            /\ \A k \in 1..Len(core) : CharMatches(core[k], s[i + k - 1])

RegExpTest(p, s) == \E b \in Alternatives(p) : BranchMatches(b, s)

\* column ~ pattern: NULL ~ p is NULL, so the row is not selected
RegexOperator(cell, p) == cell.t = "str" /\ RegExpTest(p, cell.s)

\* the registered function: s ? (regexp.test(s) ? 1 : 0) : 0
regexp_like(cell, p) == cell.t = "str" /\ cell.s # <<>> /\ RegExpTest(p, cell.s)

\* column = value: never true when either side is NULL
SqlEquals(cell, value) == cell.t # "null" /\ value.t # "null" /\ cell = value

(***************************************************************************)
(* [...rules].sort((a, b) => a.priority - b.priority): a stable sort.  The  *)
(* result is the sequence of positions of the input array in execution     *)
(* order.                                                                  *)
(***************************************************************************)
\* a sort that is not stable: position i goes before the rules of equal priority
InsertBeforeEqual(sorted, i, rules) ==
    LET k == Cardinality({j \in 1..Len(sorted) :
                            rules[sorted[j]].priority < rules[i].priority})
    IN  SubSeq(sorted, 1, k) \o <<i>> \o SubSeq(sorted, k + 1, Len(sorted))

\* insert position i after every already placed rule of priority <= its own
InsertByPriority(sorted, i, rules) ==
    LET k == Cardinality({j \in 1..Len(sorted) :
                            rules[sorted[j]].priority <= rules[i].priority})
    IN  SubSeq(sorted, 1, k) \o <<i>> \o SubSeq(sorted, k + 1, Len(sorted))

RECURSIVE SortPrefix(_, _)
SortPrefix(rules, n) ==
    IF n = 0 THEN <<>> ELSE InsertByPriority(SortPrefix(rules, n - 1), n, rules)

\* no sort: the rules run in array order
arrayOrder(rules) == [i \in 1..Len(rules) |-> i]

\* the rules in descending order of priority
descendingOrder(rules) ==
    LET asc == SortPrefix(rules, Len(rules))
    IN  [i \in 1..Len(rules) |-> asc[Len(rules) + 1 - i]]

sortedRulesOf(rules) == SortPrefix(rules, Len(rules))

\* rules.sort(...) without the copy: the caller's array itself is put in order
sortInPlace(rules) ==
    [i \in 1..Len(rules) |-> rules[SortPrefix(rules, Len(rules))[i]]]

\* the caller's array once [...rules].sort(...) has run: the copy was sorted
rulesAfterSort(rules) == rules

(***************************************************************************)
(* Compilation of one rule into an UPDATE statement.                       *)
(***************************************************************************)
\* appliedRulesField = null
NullField == "null"

\* a field that names a tracking column from the start
applied_rules == "applied_rules"

\* private appliedRulesField: string | null = null
InitialField == NullField

\* String.prototype.trim on the field names the model passes
Trim(fieldName) == IF fieldName = " appliedRules " THEN "appliedRules" ELSE fieldName

Digits == {"0", "1", "2", "3", "4", "5", "6", "7", "8", "9"}

\* classification by content: a numeric-looking string is compared by equality
PredicateKindByContent(value) ==
    IF value.t = "str" /\ ~(value.s # <<>> /\ \A k \in 1..Len(value.s) : value.s[k] \in Digits)
    THEN "regex" ELSE "equality"

\* typeof value === 'string'
PredicateKind(value) == IF value.t = "str" THEN "regex" ELSE "equality"

\* one query.where(...) of the loop over matchEntries
WhereTerm(key, value, regexpSupported) ==
    [col |-> key,
     op  |-> IF PredicateKind(value) = "regex"
             THEN (IF regexpSupported THEN "~" ELSE "regexp_like")
             ELSE "=",
     val |-> value]

WhereClause(rule, regexpSupported) ==
    {WhereTerm(key, rule.match[key], regexpSupported) : key \in DOMAIN rule.match}

EvalTerm(term, row) ==
    CASE term.op = "~" -> RegexOperator(row[term.col], term.val.s)
      [] term.op = "regexp_like" -> regexp_like(row[term.col], term.val.s)
      [] OTHER -> SqlEquals(row[term.col], term.val)

\* the where terms joined by OR: one satisfied key is enough
SelectedByAnyTerm(where, tbl) ==
    {r \in DOMAIN tbl : \E term \in where : EvalTerm(term, tbl[r])}

\* the rows an UPDATE ... WHERE t1 AND t2 ... selects
SelectedRows(where, tbl) ==
    {r \in DOMAIN tbl : \A term \in where : EvalTerm(term, tbl[r])}

\* the SQL expression JSON_ARRAY_APPEND(COALESCE(field, JSON_ARRAY()), '$', name)
AppendExpr(name) == [t |-> "append", s |-> <<>>, n |-> 0, l |-> <<name>>]

\* the tracking append put first and the entries of rule.apply spread over it
ApplyOverTracking(rule, field) ==
    IF field = NullField \/ field = "" THEN rule.apply
    ELSE [c \in (DOMAIN rule.apply) \cup {field} |->
            IF c \in DOMAIN rule.apply THEN rule.apply[c] ELSE AppendExpr(rule.ruleName)]

\* updateObject = {...rule.apply}, plus the tracking append when configured
UpdateObject(rule, field) ==
    IF field = NullField \/ field = "" THEN rule.apply
    ELSE [c \in (DOMAIN rule.apply) \cup {field} |->
            IF c = field THEN AppendExpr(rule.ruleName) ELSE rule.apply[c]]

\* SQL NULL in the place of the empty list
sql_null == Null

json_array == JsonList(<<>>)

\* the column overwritten with a fresh list instead of COALESCE(field, JSON_ARRAY())
FreshList(a, b) == b

Coalesce(a, b) == IF a.t = "null" THEN b ELSE a

\* the name put at the head of the list
json_array_prepend(target, value) == JsonList(<<value>> \o target.l)

json_array_append(target, value) == JsonList(Append(target.l, value))

\* the name appended only to a list that does not hold it yet
AppendIfAbsent(expr, cell) ==
    IF expr.t = "append"
    THEN LET list == Coalesce(cell, json_array)
         IN  IF \E i \in DOMAIN list.l : list.l[i] = expr.l[1] THEN list
             ELSE json_array_append(list, expr.l[1])
    ELSE expr

\* the value a SET expression gives a cell
EvalAssignment(expr, cell) ==
    IF expr.t = "append" THEN json_array_append(Coalesce(cell, json_array), expr.l[1])
    ELSE expr

UpdatedRow(row, upd) ==
    LET new(c) == IF c \in DOMAIN upd THEN EvalAssignment(upd[c], row[c]) ELSE row[c]
    IN  [c \in DOMAIN row |-> new(c)]

\* an UPDATE whose effect the following statements do not see
InvisibleUpdate(tbl, where, upd) == tbl

\* UPDATE tbl SET upd, with no WHERE clause
UpdateEveryRow(tbl, where, upd) == [r \in DOMAIN tbl |-> UpdatedRow(tbl[r], upd)]

\* UPDATE tbl SET upd WHERE where
UpdateTable(tbl, where, upd) ==
    LET rows == SelectedRows(where, tbl)
    IN  [r \in DOMAIN tbl |-> IF r \in rows THEN UpdatedRow(tbl[r], upd) ELSE tbl[r]]

\* email is NOT NULL and UNIQUE
ConstraintViolated(tbl) ==
    \/ \E r \in DOMAIN tbl : tbl[r].email.t = "null"
    \/ \E r1, r2 \in DOMAIN tbl : r1 # r2 /\ tbl[r1].email = tbl[r2].email

\* the empty-apply guard left out
ApplyNeverEmpty(rule) == FALSE

\* Object.entries(rule.apply).length === 0
ApplyIsEmpty(rule) == DOMAIN rule.apply = {}

\* the empty-match guard left out
MatchNeverEmpty(rule) == FALSE

\* Object.entries(rule.match).length === 0
MatchIsEmpty(rule) == DOMAIN rule.match = {}

\* an UPDATE with an empty SET list is not valid SQL; a constraint violation fails it
StatementFails(tbl, where, upd) ==
    DOMAIN upd = {} \/ ConstraintViolated(UpdateTable(tbl, where, upd))

\* the number of statements that updated something, not of rows
OnePerStatement(rows) == IF rows = {} THEN 0 ELSE 1

\* result[0].numUpdatedRows: the rows the WHERE clause matched
NumUpdatedRows(rows) == Cardinality(rows)

\* rule.stopProcessingOtherRules, undefined on a rule without the field
StopFlag(rule) ==
    "stopProcessingOtherRules" \in DOMAIN rule /\ rule.stopProcessingOtherRules

\* a loop that breaks after a rule with the flag set has matched rows
BreakWhenFlagged(rule, rows, i, n) == IF StopFlag(rule) /\ rows # {} THEN n + 1 ELSE i + 1

\* for (const rule of sortedRules): the next rule, whatever the rule did
NextPosition(rule, rows, i, n) == i + 1

\* "=" instead of "+=": the total is the last rule's count
OverwriteAffectedRows(total, n) == n

\* totalAffectedRows += Number(result[0]?.numUpdatedRows || 0)
AddAffectedRows(total, n) == total + n

\* the early return left out
NeverEmptyInput(rules) == FALSE

\* if (!rules.length) return 0
IsEmptyInput(rules) == Len(rules) = 0

\* statements issued outside the transaction: what ran before the failure stays
KeptPartial(committed, working) == working

\* db.transaction().execute(cb) rolls the transaction back when cb throws
RolledBack(committed, working) == committed

\* the guard left out: the engine goes on with whatever the field holds
AlwaysConfigured(field) == TRUE

\* if (!this.appliedRulesField) throw ...: null and "" are not a configuration
FieldConfigured(field) == field # NullField /\ field # ""

ConfigurationError == "appliedRulesField is not configured. Use setAppliedRulesField() first."

\* the filter compiled like a rule's match: a string value becomes a regex
FilterAsMatch(whereConditions) ==
    {WhereTerm(key, whereConditions[key], TRUE) : key \in DOMAIN whereConditions}

\* query.where(key, '=', value) for every entry of whereConditions
EqualityFilter(whereConditions) ==
    {[col |-> key, op |-> "=", val |-> whereConditions[key]] : key \in DOMAIN whereConditions}

\* row[this.appliedRulesField]: undefined when the row has no such column
CellOf(row, field) == IF field \in DOMAIN row THEN row[field] ELSE Null

\* the rule names of the model that are JSON texts, with what JSON.parse and
\* String make of them
JsonTexts ==
    ("\"r1\"" :> "r1") @@ ("[\"a\",\"b\"]" :> "a,b") @@ ("42" :> "42")

\* normalizeOne: a JSON string literal loses its quotes, a plain name is kept
normalizeOne(v) == IF v \in DOMAIN JsonTexts THEN JsonTexts[v] ELSE v

\* the column value handed on as the driver delivered it
NotNormalized(value) == IF value.t = "json" THEN value.l ELSE value

\* normalizeAppliedRules: null or undefined gives [], an array is mapped
\* element by element, any other value is wrapped into a one-element array
normalizeAppliedRules(value) ==
    IF value.t = "null" THEN <<>>
    ELSE IF value.t = "json" THEN [i \in 1..Len(value.l) |-> normalizeOne(value.l[i])]
    ELSE <<normalizeOne(value)>>

\* the selected row numbers in table order
RECURSIVE InOrder(_, _)
InOrder(rows, n) ==
    IF n = 0 THEN <<>>
    ELSE IF n \in rows THEN Append(InOrder(rows, n - 1), n) ELSE InOrder(rows, n - 1)

\* rows.map(row => ({...row, appliedRules: normalizeAppliedRules(row[field])}))
RowsWithAppliedRules(tbl, rows, field) ==
    LET sel == InOrder(rows, Len(tbl))
    IN  [i \in 1..Len(sel) |->
            [r |-> sel[i], row |-> tbl[sel[i]],
             appliedRules |-> normalizeAppliedRules(CellOf(tbl[sel[i]], field))]]

(***************************************************************************)
(* The results table: resetResultsTableIfExists and RulesService.          *)
(***************************************************************************)
\* the calls made on the results table
MaxServiceCalls == 3

\* the tables the application has created
SourceTables == {"users"}

\* the table names handed to resetResultsTableIfExists and processRules
TableNames == {"users", "nonexistent_table"}

\* const resultsTableName = `${targetTableName}Results`
ResultsTableName(targetTableName) == targetTableName \o "Results"

\* applied_rules text[] NOT NULL DEFAULT '{}': the column the results table has
\* besides those of the source, with the value a row gets when none is inserted
DefaultColumns == ("applied_rules" :> JsonList(<<>>))

\* the two relations the statements of a reset name
Relation(name) == IF name \in SourceTables THEN "source" ELSE "results"

\* the source table taken to exist
SourceAssumed(targetTableName) == FALSE

\* CREATE TABLE IF NOT EXISTS results (LIKE target ...) with no relation target
SourceMissing(targetTableName) == targetTableName \notin SourceTables

\* TRUNCATE of the table the copy reads
TruncatedSource(targetTableName, resultsTableName) == targetTableName

\* TRUNCATE ${sql.ref(resultsTableName)}
TruncatedRelation(targetTableName, resultsTableName) == resultsTableName

\* a TRUNCATE that removes nothing
KeepRows(db, name) == db

Truncate(db, name) == [db EXCEPT ![Relation(name)] = <<>>]

\* INSERT INTO into SELECT * FROM from: the columns the select list does not
\* give get their defaults
InsertSelect(db, into, from) ==
    [db EXCEPT ![Relation(into)] =
        db[Relation(into)] \o
        [i \in DOMAIN db[Relation(from)] |-> db[Relation(from)][i] @@ DefaultColumns]]

\* the statements are executed on this.db, not on trx: each one is committed
\* when it completes, and the rollback of the empty transaction undoes nothing
AfterFailedReset(held, current) == current

\* execution.applyRules(rules, resultsTableName)
ApplyTarget(targetTableName, resultsTableName) == resultsTableName

\* what deleteFrom('users') and insertInto('users') of the application leave
SourceContents == {TEST_USERS, CASE_USERS}

\* the rules of the calls on the results table: r1 with the field
\* stopProcessingOtherRules of the MatchRule interface set, r2 without the
\* field, as the factory returns it, r3 with the field not set
ServiceRules ==
    << TrackedRules[1] @@ ("stopProcessingOtherRules" :> TRUE),
       TrackedRules[2],
       TrackedRules[3] @@ ("stopProcessingOtherRules" :> FALSE) >>

\* the rules arrays of the calls on the results table (as positions of
\* ServiceRules): none, one rule, a pair whose second rule matches what the
\* first has written, and a pair whose second UPDATE fails; the two pairs also
\* with the rule of higher priority standing first in the array
ServiceBatches == {<<>>, <<1>>, <<1, 2>>, <<1, 3>>, <<2, 1>>, <<3, 1>>}

ServiceRulesOf(batch) == [i \in 1..Len(batch) |-> ServiceRules[batch[i]]]

\* no resetResultsTableIfExists or processRules call is in progress
NoService ==
    [op |-> "none", pc |-> "idle", target |-> "", name |-> "", rules |-> <<>>,
     error |-> "none", held |-> <<>>, applied |-> "", returned |-> "",
     exists |-> FALSE, count |-> 0]

\* an empty rules array with no reset: processRules has no such early return
ReturnEarly(op, rules) ==
    IF op = "processRules" /\ Len(rules) = 0 THEN "apply" ELSE "create"

\* processRules and resetResultsTableIfExists begin with createResultsTable
FirstStep(op, rules) == "create"

(***************************************************************************)
(* MatchRuleFactory.  The arguments are JavaScript values of any type: a   *)
(* value has a kind, and according to it a string, a number (a fraction    *)
(* n / d in lowest terms), or the entries of an object or of an array.     *)
(***************************************************************************)
JsValue(k, s, n, d, m) == [k |-> k, s |-> s, n |-> n, d |-> d, m |-> m]

Undefined == JsValue("undefined", "", 0, 1, <<>>)
JsNull == JsValue("null", "", 0, 1, <<>>)
JsString(s) == JsValue("string", s, 0, 1, <<>>)
JsNumber(n, d) == JsValue("number", "", n, d, <<>>)
JsObject(m) == JsValue("object", "", 0, 1, m)
JsArray(a) == JsValue("array", "", 0, 1, a)

\* typeof v
TypeOf(v) == IF v.k \in {"null", "object", "array"} THEN "object" ELSE v.k

\* ToBoolean(v)
Truthy(v) ==
    CASE v.k \in {"undefined", "null"} -> FALSE
      [] v.k = "string" -> v.s # ""
      [] v.k = "number" -> v.n # 0
      [] OTHER -> TRUE

\* v >= 0, the operand converted to a number ("5" is the one string of the
\* model that converts to a number)
GeZero(v) ==
    CASE v.k = "number" -> v.n >= 0
      [] v.k = "string" -> v.s = "5"
      [] v.k = "null" -> TRUE
      [] OTHER -> FALSE

\* a || b
Or(a, b) == IF Truthy(a) THEN a ELSE b

\* json.key: undefined when the object has no such property
Get(json, key) ==
    IF json.k = "object" /\ key \in DOMAIN json.m THEN json.m[key] ELSE Undefined

\* a parameter with a default value: the default replaces undefined only
DefaultTo(v, default) == IF v.k = "undefined" THEN default ELSE v

\* String.prototype.trim on the names the model passes
trim(s) ==
    CASE s = " r2 " -> "r2"
      [] s = "   " -> ""
      [] OTHER -> s

Returned(value) == [ok |-> TRUE, value |-> value, error |-> ""]

Threw(message) == [ok |-> FALSE, value |-> <<>>, error |-> message]

\* the name check without the test of the trimmed name
NameInvalidUntrimmed(ruleName) == ~Truthy(ruleName) \/ TypeOf(ruleName) # "string"

\* !ruleName || typeof ruleName !== 'string' || ruleName.trim() === ''
NameInvalid(ruleName) ==
    ~Truthy(ruleName) \/ TypeOf(ruleName) # "string" \/ trim(ruleName.s) = ""

\* value ? value : {}: a string kept, read as an object of its characters
AnyTruthy(v) ==
    IF Truthy(v) THEN (IF v.k = "object" THEN v.m ELSE ("0" :> Str(<<"i">>)))
    ELSE EmptyObject

\* (value && typeof value === 'object') ? value : {}
ObjectOrEmpty(v) == IF Truthy(v) /\ TypeOf(v) = "object" THEN v.m ELSE EmptyObject

\* (priority && priority >= 0) ? priority : 0
PriorityOrZero(priority) ==
    IF Truthy(priority) /\ GeZero(priority) THEN priority ELSE JsNumber(0, 1)

\* MatchRuleFactory.createRule(ruleName, match, apply, priority = 0)
createRule(ruleName, match, apply, priority) ==
    IF NameInvalid(ruleName) THEN Threw("Rule name must be a non-empty string")
    ELSE Returned([priority |-> PriorityOrZero(DefaultTo(priority, JsNumber(0, 1))),
                   ruleName |-> trim(ruleName.s),
                   match |-> ObjectOrEmpty(match),
                   apply |-> ObjectOrEmpty(apply)])

\* MatchRuleFactory.create(json)
create(json) ==
    IF ~Truthy(json) \/ TypeOf(json) # "object" THEN Threw("Invalid rule object provided")
    ELSE createRule(Get(json, "ruleName"),
                    Or(Get(json, "match"), JsObject(EmptyObject)),
                    Or(Get(json, "apply"), JsObject(EmptyObject)),
                    Or(Get(json, "priority"), JsNumber(0, 1)))

\* rules.map(rule => MatchRuleFactory.create(rule)): the first element that
\* throws ends the call
RECURSIVE MapCreate(_)
MapCreate(list) ==
    IF list = <<>> THEN Returned(<<>>)
    ELSE LET first == create(Head(list))
         IN  IF ~first.ok THEN first
             ELSE LET rest == MapCreate(Tail(list))
                  IN  IF ~rest.ok THEN rest ELSE Returned(<<first.value>> \o rest.value)

\* MatchRuleFactory.createRules(rules)
createRules(rules) ==
    IF rules.k # "array" THEN Threw("Rules must be an array") ELSE MapCreate(rules.m)

\* the arguments of the factory calls
MaxRawRules == 2

NameArgs ==
    {Undefined, JsNull, JsNumber(123, 1), JsString(""), JsString("   "),
     JsString("r1"), JsString(" r2 "),
     JsString("\"r1\""), JsString("42"), JsString("[\"a\",\"b\"]")}

MatchArgs ==
    {JsNull, Undefined, JsString("invalid"), JsObject(("role" :> Str(admin)))}

ApplyArgs ==
    {JsNull, Undefined, JsString("invalid"), JsObject(("status" :> Str(vip)))}

\* omitted, 0, -1, 1, 1.5, "5" and null
PriorityArgs ==
    {Undefined, JsNumber(0, 1), JsNumber(-1, 1), JsNumber(1, 1), JsNumber(3, 2),
     JsString("5"), JsNull}

\* the elements of the arrays handed to createRules, and the arguments of create
RawRules ==
    { JsObject([ruleName |-> JsString("r1"), match |-> JsObject(("role" :> Str(admin))),
                apply |-> JsObject(("status" :> Str(vip)))]),
      JsObject([ruleName |-> JsString(" r2 "), match |-> JsObject(("status" :> Str(vip))),
                apply |-> JsObject(("priority" :> Num(10))), priority |-> JsNumber(1, 1)]),
      JsObject([ruleName |-> JsString("r1"), match |-> JsString("invalid"),
                apply |-> JsObject(("status" :> Str(vip))), priority |-> JsNumber(3, 2)]),
      JsObject([ruleName |-> JsString("   "), match |-> JsObject(("role" :> Str(admin))),
                apply |-> JsObject(("status" :> Str(vip)))]),
      JsObject([match |-> JsObject(("role" :> Str(admin))), apply |-> JsNull]),
      JsNull,
      JsString("r1") }

RawLists ==
    {JsArray(list) : list \in SeqsUpTo(RawRules, MaxRawRules)}
        \cup {Undefined, JsString("r1"), JsObject(EmptyObject)}

\* a returned priority is a whole number
IsInteger(v) == v.k = "number" /\ v.d = 1

\* the rule as the engine of the model reads it
EngineRule(rule) == Rule(rule.ruleName, rule.priority.n, rule.match, rule.apply)

\* the rules a factory call has returned, as the array handed to applyRules
CreatedRules(call) ==
    IF call.op = "createRules"
    THEN [i \in DOMAIN call.out.value |-> EngineRule(call.out.value[i])]
    ELSE <<EngineRule(call.out.value)>>

\* no MatchRuleFactory call has been made
NoFactoryCall == [op |-> "none", args |-> <<>>, out |-> Threw("")]

\* no clearAppliedRules or getRowsWithAppliedRules call has been made
NoCall == [op |-> "none", filter |-> EmptyObject, error |-> "none", ret |-> 0,
           rows |-> <<>>, issued |-> 0]

(***************************************************************************)
(* State.                                                                  *)
(***************************************************************************)
VARIABLES
    table,                     \* the committed content of the results table
    trxTable,                  \* the table as the open transaction sees it
    appliedRulesField,         \* RulesExecutionService.appliedRulesField
    regexpOperatorsSupported,  \* RulesExecutionService.regexpOperatorsSupported
    pc,                        \* position of the applyRules call
    rulesArg,                  \* the caller's rules array
    sortedRules,               \* positions of rulesArg in execution order
    idx,                       \* position of the for loop in sortedRules
    totalAffectedRows,         \* the running total
    result,                    \* the value the call resolved to
    stmts,                     \* the UPDATE statements the call has executed
    before,                    \* the table when the call started
    txOpened,                  \* the call has opened a transaction
    calls,                     \* number of finished calls
    lastCall,                  \* outcome of the last clearAppliedRules / getRowsWithAppliedRules
    sessions,                  \* the transactions of engines working concurrently
    source,                    \* the content of the source table
    service,                   \* the resetResultsTableIfExists / processRules call
    factory                    \* the MatchRuleFactory call

vars == <<table, trxTable, appliedRulesField, regexpOperatorsSupported, pc, rulesArg,
          sortedRules, idx, totalAffectedRows, result, stmts, before, txOpened, calls,
          lastCall, sessions, source, service, factory>>

\* what an applyRules call of a single engine leaves alone
otherVars == <<lastCall, sessions, source, service, factory>>

\* what lies outside the engine's applyRules, clearAppliedRules and getRowsWithAppliedRules
outerVars == <<source, service, factory>>

callVars == <<rulesArg, sortedRules, idx, totalAffectedRows, result, stmts, before, txOpened>>

Init ==
    /\ table \in Fixtures
    /\ trxTable = table
    /\ appliedRulesField = InitialField
    /\ regexpOperatorsSupported \in BOOLEAN
    /\ pc = "idle"
    /\ rulesArg = <<>>
    /\ sortedRules = <<>>
    /\ idx = 1
    /\ totalAffectedRows = 0
    /\ result = 0
    /\ stmts = <<>>
    /\ before = table
    /\ txOpened = FALSE
    /\ calls = 0
    /\ lastCall = NoCall
    /\ sessions = <<>>
    /\ source = table
    /\ service = NoService
    /\ factory = NoFactoryCall

\* the rule the for loop is at
CurrentRule == rulesArg[sortedRules[idx]]

InLoop == pc = "running" /\ idx <= Len(sortedRules)

(***************************************************************************)
(* Operations.                                                             *)
(***************************************************************************)
SetAppliedRulesField(fieldName) ==
    /\ pc = "idle"
    /\ appliedRulesField' = Trim(fieldName)
    /\ UNCHANGED <<table, trxTable, regexpOperatorsSupported, pc, callVars, calls, otherVars>>

\* applyRules(rules, table) up to the opening of the transaction
BeginApplyRules(rules) ==
    /\ pc = "idle"
    /\ rulesArg' = rulesAfterSort(rules)
    /\ before' = table
    /\ stmts' = <<>>
    /\ totalAffectedRows' = 0
    /\ idx' = 1
    /\ IF IsEmptyInput(rulesArg')
       THEN /\ pc' = "done"
            /\ result' = 0
            /\ sortedRules' = <<>>
            /\ UNCHANGED <<trxTable, txOpened>>
       ELSE /\ pc' = "running"
            /\ sortedRules' = sortedRulesOf(rulesArg')
            /\ trxTable' = table
            /\ txOpened' = TRUE
            /\ UNCHANGED result
    /\ UNCHANGED <<table, appliedRulesField, regexpOperatorsSupported, calls, otherVars>>

\* a call of applyRules with a rules array drawn from RulePool
ApplyRules(batch) ==
    /\ calls < MaxCalls
    /\ BeginApplyRules(RulesOf(batch))

\* a call of applyRules on a table earlier calls have left their tracking in
ApplyRulesInSuccession(batch) ==
    /\ calls < MaxTrackedCalls
    /\ BeginApplyRules(TrackedRulesOf(batch))

\* clearAppliedRules(targetTable, whereConditions): one UPDATE on this.db
ClearAppliedRules(whereConditions) ==
    /\ pc = "idle"
    /\ calls < MaxTrackedCalls
    /\ IF ~FieldConfigured(appliedRulesField)
       THEN /\ lastCall' = [op |-> "clear", filter |-> whereConditions,
                            error |-> ConfigurationError, ret |-> 0, rows |-> <<>>,
                            issued |-> 0]
            /\ UNCHANGED <<table, trxTable>>
       ELSE LET where == EqualityFilter(whereConditions)
                upd == (appliedRulesField :> json_array)
            IN  /\ table' = UpdateTable(table, where, upd)
                /\ trxTable' = table'
                /\ lastCall' = [op |-> "clear", filter |-> whereConditions,
                                error |-> "none",
                                ret |-> NumUpdatedRows(SelectedRows(where, table)),
                                rows |-> <<>>, issued |-> 1]
    /\ pc' = "answered"
    /\ UNCHANGED <<appliedRulesField, regexpOperatorsSupported, callVars, calls, sessions,
                   outerVars>>

\* getRowsWithAppliedRules(targetTable, whereConditions): one SELECT on this.db
GetRowsWithAppliedRules(whereConditions) ==
    /\ pc = "idle"
    /\ calls < MaxTrackedCalls
    /\ IF ~FieldConfigured(appliedRulesField)
       THEN lastCall' = [op |-> "getRows", filter |-> whereConditions,
                         error |-> ConfigurationError, ret |-> 0, rows |-> <<>>,
                         issued |-> 0]
       ELSE LET where == EqualityFilter(whereConditions)
            IN  lastCall' = [op |-> "getRows", filter |-> whereConditions,
                             error |-> "none", ret |-> 0,
                             rows |-> RowsWithAppliedRules(table, SelectedRows(where, table),
                                                           appliedRulesField),
                             issued |-> 1]
    /\ pc' = "answered"
    /\ UNCHANGED <<table, trxTable, appliedRulesField, regexpOperatorsSupported, callVars,
                   calls, sessions, outerVars>>

\* loop body: the rule has no apply entries
SkipEmptyApply ==
    /\ InLoop
    /\ ApplyIsEmpty(CurrentRule)
    /\ idx' = idx + 1
    /\ UNCHANGED <<table, trxTable, appliedRulesField, regexpOperatorsSupported, pc, rulesArg,
                   sortedRules, totalAffectedRows, result, stmts, before, txOpened, calls, otherVars>>

\* loop body: the rule has no match entries
SkipEmptyMatch ==
    /\ InLoop
    /\ ~ApplyIsEmpty(CurrentRule)
    /\ MatchIsEmpty(CurrentRule)
    /\ idx' = idx + 1
    /\ UNCHANGED <<table, trxTable, appliedRulesField, regexpOperatorsSupported, pc, rulesArg,
                   sortedRules, totalAffectedRows, result, stmts, before, txOpened, calls, otherVars>>

\* loop body: the rule's UPDATE is executed inside the transaction
ExecuteUpdate ==
    /\ InLoop
    /\ ~ApplyIsEmpty(CurrentRule)
    /\ ~MatchIsEmpty(CurrentRule)
    /\ LET where == WhereClause(CurrentRule, regexpOperatorsSupported)
           upd == UpdateObject(CurrentRule, appliedRulesField)
           rows == SelectedRows(where, trxTable)
       IN  /\ ~StatementFails(trxTable, where, upd)
           /\ trxTable' = UpdateTable(trxTable, where, upd)
           /\ stmts' = Append(stmts, [rule |-> sortedRules[idx], where |-> where,
                                      set |-> DOMAIN upd, matched |-> rows])
           /\ totalAffectedRows' = AddAffectedRows(totalAffectedRows, NumUpdatedRows(rows))
           /\ idx' = NextPosition(CurrentRule, rows, idx, Len(sortedRules))
    /\ UNCHANGED <<table, appliedRulesField, regexpOperatorsSupported, pc, rulesArg,
                   sortedRules, result, before, txOpened, calls, otherVars>>

\* loop body: the rule's UPDATE fails, the call rejects
UpdateFails ==
    /\ InLoop
    /\ ~ApplyIsEmpty(CurrentRule)
    /\ ~MatchIsEmpty(CurrentRule)
    /\ StatementFails(trxTable, WhereClause(CurrentRule, regexpOperatorsSupported),
                      UpdateObject(CurrentRule, appliedRulesField))
    /\ table' = RolledBack(table, trxTable)
    /\ trxTable' = table'
    /\ pc' = "failed"
    /\ UNCHANGED <<appliedRulesField, regexpOperatorsSupported, rulesArg, sortedRules, idx,
                   totalAffectedRows, result, stmts, before, txOpened, calls, otherVars>>

\* the loop is over: the transaction commits and the call resolves
Commit ==
    /\ pc = "running"
    /\ idx > Len(sortedRules)
    /\ table' = trxTable
    /\ result' = totalAffectedRows
    /\ pc' = "done"
    /\ UNCHANGED <<trxTable, appliedRulesField, regexpOperatorsSupported, rulesArg, sortedRules,
                   idx, totalAffectedRows, stmts, before, txOpened, calls, otherVars>>

\* the caller has seen the outcome; the engine is ready for the next call
Return ==
    /\ pc \in {"done", "failed", "answered"}
    /\ pc' = "idle"
    /\ calls' = calls + 1
    /\ lastCall' = NoCall
    /\ rulesArg' = <<>>
    /\ sortedRules' = <<>>
    /\ idx' = 1
    /\ totalAffectedRows' = 0
    /\ result' = 0
    /\ stmts' = <<>>
    /\ before' = table
    /\ txOpened' = FALSE
    /\ UNCHANGED <<table, trxTable, appliedRulesField, regexpOperatorsSupported, sessions,
                   outerVars>>

Next ==
    \/ \E fieldName \in {"appliedRules", " appliedRules "} : SetAppliedRulesField(fieldName)
    \/ \E batch \in Batches : ApplyRules(batch)
    \/ SkipEmptyApply
    \/ SkipEmptyMatch
    \/ ExecuteUpdate
    \/ UpdateFails
    \/ Commit
    \/ Return

Spec == Init /\ [][Next]_vars

(***************************************************************************)
(* One engine on a tracked table: successive applyRules calls, with        *)
(* clearAppliedRules and getRowsWithAppliedRules between them.             *)
(***************************************************************************)
TrackedInit == Init /\ table = TEST_USERS /\ regexpOperatorsSupported = FALSE

TrackedNext ==
    \/ SetAppliedRulesField("appliedRules")
    \/ \E batch \in TrackedBatches : ApplyRulesInSuccession(batch)
    \/ ExecuteUpdate
    \/ UpdateFails
    \/ Commit
    \/ Return
    \/ \E whereConditions \in Filters : ClearAppliedRules(whereConditions)
    \/ \E whereConditions \in Filters : GetRowsWithAppliedRules(whereConditions)

TrackedSpec == TrackedInit /\ [][TrackedNext]_vars

(***************************************************************************)
(* Two engines with the tracking field configured, each making one         *)
(* applyRules call on the same table, their transactions interleaved.  An  *)
(* UPDATE locks the rows it changes until its transaction ends; a          *)
(* statement that selects a row locked by the other transaction waits and  *)
(* then sees the committed row (READ COMMITTED).  The rules of the model   *)
(* all select the same row, so no transaction waits for a row while        *)
(* holding one the other waits for.                                        *)
(***************************************************************************)
\* the two engines (each with its own connection)
Engines == {1, 2}

NoWrites == <<>>

IdleSession == [pc |-> "idle", rules |-> <<>>, order |-> <<>>, idx |-> 1,
                writes |-> NoWrites, read |-> <<>>, log |-> <<>>]

\* the rules arrays of the concurrent calls
ConcurrentBatches == TrackedBatches \ {<<>>}

\* the table as the transaction of session s sees it: the committed rows, and
\* its own versions of the rows it has updated
View(s) ==
    [r \in DOMAIN table |->
        IF r \in DOMAIN sessions[s].writes THEN sessions[s].writes[r] ELSE table[r]]

\* the rows updated by an open transaction other than that of session s
LockedByOthers(s) ==
    UNION {DOMAIN sessions[o].writes : o \in Engines \ {s}}

SessionRule(s) == sessions[s].rules[sessions[s].order[sessions[s].idx]]

SessionInLoop(s) ==
    sessions[s].pc = "running" /\ sessions[s].idx <= Len(sessions[s].order)

\* the statement of session s has to wait for a row lock
Blocked(s) ==
    SelectedRows(WhereClause(SessionRule(s), regexpOperatorsSupported), View(s))
        \cap LockedByOthers(s) # {}

\* the list is read by the caller when the call starts, extended in the client
\* and written back
ClientSideInput(current, readAtStart) ==
    [current EXCEPT !.appliedRules = readAtStart.appliedRules]

\* the row the SET expressions are evaluated on: the append is an expression
\* inside the UPDATE, evaluated by the server on the row it is updating
StatementInput(current, readAtStart) == current

unchangedBySessions ==
    UNCHANGED <<trxTable, appliedRulesField, regexpOperatorsSupported, pc, callVars, calls,
                lastCall, outerVars>>

\* session s calls applyRules: the transaction opens
SessionBegins(s, batch) ==
    /\ sessions[s].pc = "idle"
    /\ sessions' = [sessions EXCEPT ![s] =
          [pc |-> "running", rules |-> TrackedRulesOf(batch),
           order |-> sortedRulesOf(TrackedRulesOf(batch)), idx |-> 1,
           writes |-> NoWrites, read |-> table, log |-> <<>>]]
    /\ UNCHANGED table
    /\ unchangedBySessions

\* the UPDATE of the rule session s is at executes
SessionUpdates(s) ==
    /\ SessionInLoop(s)
    /\ ~Blocked(s)
    /\ LET rule == SessionRule(s)
           where == WhereClause(rule, regexpOperatorsSupported)
           upd == UpdateObject(rule, appliedRulesField)
           rows == SelectedRows(where, View(s))
           written == [r \in rows |->
                          UpdatedRow(StatementInput(View(s)[r], sessions[s].read[r]), upd)]
       IN  /\ ~StatementFails(View(s), where, upd)
           /\ sessions' = [sessions EXCEPT
                 ![s].writes = written @@ sessions[s].writes,
                 ![s].idx = sessions[s].idx + 1,
                 ![s].log = Append(sessions[s].log,
                                   [name |-> rule.ruleName, matched |-> rows])]
    /\ UNCHANGED table
    /\ unchangedBySessions

\* the UPDATE fails: the transaction of session s is rolled back
SessionFails(s) ==
    /\ SessionInLoop(s)
    /\ ~Blocked(s)
    /\ StatementFails(View(s), WhereClause(SessionRule(s), regexpOperatorsSupported),
                      UpdateObject(SessionRule(s), appliedRulesField))
    /\ sessions' = [sessions EXCEPT ![s].pc = "aborted", ![s].writes = NoWrites]
    /\ UNCHANGED table
    /\ unchangedBySessions

\* the loop of session s is over: its transaction commits
SessionCommits(s) ==
    /\ sessions[s].pc = "running"
    /\ sessions[s].idx > Len(sessions[s].order)
    /\ table' = View(s)
    /\ sessions' = [sessions EXCEPT ![s].pc = "committed", ![s].writes = NoWrites]
    /\ unchangedBySessions

\* both engines constructed on the table of the tests and given the field name
ConcurrentInit ==
    /\ table = TEST_USERS
    /\ trxTable = table
    /\ appliedRulesField = Trim("appliedRules")
    /\ regexpOperatorsSupported = FALSE
    /\ pc = "idle"
    /\ rulesArg = <<>>
    /\ sortedRules = <<>>
    /\ idx = 1
    /\ totalAffectedRows = 0
    /\ result = 0
    /\ stmts = <<>>
    /\ before = table
    /\ txOpened = FALSE
    /\ calls = 0
    /\ lastCall = NoCall
    /\ sessions = [s \in Engines |-> IdleSession]
    /\ source = table
    /\ service = NoService
    /\ factory = NoFactoryCall

ConcurrentNext ==
    \/ \E s \in Engines : \E batch \in ConcurrentBatches : SessionBegins(s, batch)
    \/ \E s \in Engines : SessionUpdates(s)
    \/ \E s \in Engines : SessionFails(s)
    \/ \E s \in Engines : SessionCommits(s)

ConcurrentSpec == ConcurrentInit /\ [][ConcurrentNext]_vars

(***************************************************************************)
(* The results table of 'users': resetResultsTableIfExists and applyRules  *)
(* called on an engine, RulesService.processRules, and the application     *)
(* writing the source table between the calls.                             *)
(***************************************************************************)
Db == [source |-> source, results |-> table]

serviceFrame ==
    UNCHANGED <<appliedRulesField, regexpOperatorsSupported, pc, callVars, calls, lastCall,
                sessions, factory>>

\* resetResultsTableIfExists(targetTableName) up to the first statement
BeginReset(op, rules, targetTableName) ==
    /\ pc = "idle"
    /\ service.pc = "idle"
    /\ calls < MaxServiceCalls
    /\ service' = [service EXCEPT !.op = op, !.pc = FirstStep(op, rules),
                                  !.target = targetTableName,
                                  !.name = ResultsTableName(targetTableName),
                                  !.rules = rules, !.error = "none", !.held = table,
                                  !.applied = ""]
    /\ UNCHANGED <<table, trxTable, source, pc, callVars, calls, lastCall, sessions, factory>>

\* a caller resets the results table on the engine it holds
ResetResultsTableIfExists(targetTableName) ==
    /\ BeginReset("reset", <<>>, targetTableName)
    /\ UNCHANGED <<appliedRulesField, regexpOperatorsSupported>>

\* processRules(rules, targetTableName): a new engine, then its reset
ProcessRules(batch, targetTableName) ==
    /\ BeginReset("processRules", ServiceRulesOf(batch), targetTableName)
    /\ appliedRulesField' = InitialField
    /\ regexpOperatorsSupported' = TRUE

\* createResultsTable: fails when the source table does not exist
CreateResultsTable ==
    /\ service.pc = "create"
    /\ IF SourceMissing(service.target)
       THEN service' = [service EXCEPT !.pc = "failed", !.error = "storage"]
       ELSE service' = [service EXCEPT !.pc = "truncate", !.exists = TRUE]
    /\ UNCHANGED <<table, trxTable, source>>
    /\ serviceFrame

\* initialiseResultsTableData, first statement
TruncateResults ==
    /\ service.pc = "truncate"
    /\ LET db == Truncate(Db, TruncatedRelation(service.target, service.name))
       IN  /\ table' = db.results
           /\ source' = db.source
    /\ trxTable' = table'
    /\ service' = [service EXCEPT !.pc = "copy"]
    /\ serviceFrame

\* initialiseResultsTableData, second statement
CopyRows ==
    /\ service.pc = "copy"
    /\ LET db == InsertSelect(Db, service.name, service.target)
       IN  /\ table' = db.results
           /\ source' = db.source
    /\ trxTable' = table'
    /\ service' = [service EXCEPT !.pc = "copied", !.returned = service.name]
    /\ serviceFrame

\* the INSERT ... SELECT is rejected by the database: the call rejects
CopyFails ==
    /\ service.pc = "copy"
    /\ table' = AfterFailedReset(service.held, table)
    /\ trxTable' = table'
    /\ service' = [service EXCEPT !.pc = "failed", !.error = "storage"]
    /\ UNCHANGED source
    /\ serviceFrame

\* processRules: the reset has resolved, doPreProcessRules does nothing
DoPreProcessRules ==
    /\ service.op = "processRules"
    /\ service.pc = "copied"
    /\ service' = [service EXCEPT !.pc = "apply",
                                  !.applied = ApplyTarget(service.target, service.name)]
    /\ UNCHANGED <<table, trxTable, source>>
    /\ serviceFrame

\* processRules: execution.applyRules(rules, resultsTableName)
ApplyToResults ==
    /\ service.pc = "apply"
    /\ BeginApplyRules(service.rules)

\* a caller applies rules to the results table a reset has returned the name of
ApplyRulesOnSnapshot(batch) ==
    /\ service.pc = "idle"
    /\ service.returned # ""
    /\ calls < MaxServiceCalls
    /\ BeginApplyRules(ServiceRulesOf(batch))

\* the call of the caller has resolved or rejected
ServiceReturn ==
    /\ \/ service.op = "reset" /\ service.pc = "copied"
       \/ service.pc = "failed"
       \/ service.pc \in {"apply", "idle"} /\ pc \in {"done", "failed"}
    /\ service' = [service EXCEPT !.op = "none", !.pc = "idle", !.rules = <<>>,
                                  !.count = IF service.op = "processRules" /\ pc = "done"
                                            THEN result ELSE @]
    /\ pc' = "idle"
    /\ calls' = calls + 1
    /\ rulesArg' = <<>>
    /\ sortedRules' = <<>>
    /\ idx' = 1
    /\ totalAffectedRows' = 0
    /\ result' = 0
    /\ stmts' = <<>>
    /\ before' = table
    /\ txOpened' = FALSE
    /\ UNCHANGED <<table, trxTable, source, appliedRulesField, regexpOperatorsSupported,
                   lastCall, sessions, factory>>

\* the application replaces the rows of the source table
MutateSource(rows) ==
    /\ pc = "idle"
    /\ service.pc = "idle"
    /\ rows # source
    /\ source' = rows
    /\ UNCHANGED <<table, trxTable, service>>
    /\ serviceFrame

ServiceInit ==
    /\ table = <<>>
    /\ trxTable = table
    /\ appliedRulesField = InitialField
    /\ regexpOperatorsSupported = TRUE
    /\ pc = "idle"
    /\ rulesArg = <<>>
    /\ sortedRules = <<>>
    /\ idx = 1
    /\ totalAffectedRows = 0
    /\ result = 0
    /\ stmts = <<>>
    /\ before = table
    /\ txOpened = FALSE
    /\ calls = 0
    /\ lastCall = NoCall
    /\ sessions = <<>>
    /\ source = TEST_USERS
    /\ service = NoService
    /\ factory = NoFactoryCall

ServiceNext ==
    \/ SetAppliedRulesField("applied_rules")
    \/ \E targetTableName \in TableNames : ResetResultsTableIfExists(targetTableName)
    \/ \E batch \in ServiceBatches : \E targetTableName \in TableNames :
          ProcessRules(batch, targetTableName)
    \/ CreateResultsTable
    \/ TruncateResults
    \/ CopyRows
    \/ CopyFails
    \/ DoPreProcessRules
    \/ ApplyToResults
    \/ \E batch \in ServiceBatches : ApplyRulesOnSnapshot(batch)
    \/ ExecuteUpdate
    \/ UpdateFails
    \/ Commit
    \/ ServiceReturn
    \/ \E rows \in SourceContents : MutateSource(rows)

ServiceSpec == ServiceInit /\ [][ServiceNext]_vars

(***************************************************************************)
(* The two regular-expression paths: engines constructed with and without  *)
(* regexpOperatorsSupported, applying rules whose match values are         *)
(* patterns, one of which matches the empty string, or null, to tables     *)
(* with empty and with null cells; one rule assigns the tracking column    *)
(* in its apply mapping.                                                   *)
(***************************************************************************)
PatternRules ==
    << Rule("no-phone", 0, ("phone" :> Str(<<"^", "$">>)), ("status" :> Str(pending))),
       Rule("role-staff-rule", 0, ("role" :> Str(admin \o <<"|">> \o moderator)),
            ("status" :> Str(staff))),
       Rule("nine-something", 1, ("phone" :> Str(<<"9", ".">>)), ("priority" :> Num(10))),
       Rule("phone-is-null", 1, ("phone" :> Null), ("status" :> Str(pending))),
       Rule("forge-log", 2, ("role" :> Str(admin)),
            ("appliedRules" :> JsonList(<<"forged">>))) >>

PatternBatches == SeqsUpTo(1..Len(PatternRules), MaxBatch) \ {<<>>}

PatternRulesOf(batch) == [i \in 1..Len(batch) |-> PatternRules[batch[i]]]

\* a call of applyRules with rules matching by pattern
ApplyPatternRules(batch) ==
    /\ calls < MaxCalls
    /\ BeginApplyRules(PatternRulesOf(batch))

BackendNext ==
    \/ SetAppliedRulesField("appliedRules")
    \/ \E batch \in PatternBatches : ApplyPatternRules(batch)
    \/ ExecuteUpdate
    \/ Commit
    \/ Return

BackendInit ==
    /\ table \in Fixtures \cup {NULL_USERS}
    /\ trxTable = table
    /\ appliedRulesField = InitialField
    /\ regexpOperatorsSupported \in BOOLEAN
    /\ pc = "idle"
    /\ rulesArg = <<>>
    /\ sortedRules = <<>>
    /\ idx = 1
    /\ totalAffectedRows = 0
    /\ result = 0
    /\ stmts = <<>>
    /\ before = table
    /\ txOpened = FALSE
    /\ calls = 0
    /\ lastCall = NoCall
    /\ sessions = <<>>
    /\ source = table
    /\ service = NoService
    /\ factory = NoFactoryCall

BackendSpec == BackendInit /\ [][BackendNext]_vars

(***************************************************************************)
(* Rules made by one MatchRuleFactory call and then handed to applyRules. *)
(***************************************************************************)
factoryFrame ==
    UNCHANGED <<table, trxTable, appliedRulesField, regexpOperatorsSupported, pc, callVars,
                calls, lastCall, sessions, source, service>>

Create(json) ==
    /\ pc = "idle"
    /\ factory = NoFactoryCall
    /\ factory' = [op |-> "create", args |-> <<json>>, out |-> create(json)]
    /\ factoryFrame

CreateRule(ruleName, match, apply, priority) ==
    /\ pc = "idle"
    /\ factory = NoFactoryCall
    /\ factory' = [op |-> "createRule", args |-> <<ruleName, match, apply, priority>>,
                   out |-> createRule(ruleName, match, apply, priority)]
    /\ factoryFrame

CreateRules(rules) ==
    /\ pc = "idle"
    /\ factory = NoFactoryCall
    /\ factory' = [op |-> "createRules", args |-> <<rules>>, out |-> createRules(rules)]
    /\ factoryFrame

\* applyRules with the rules the last factory call returned
ApplyCreatedRules ==
    /\ calls < MaxCalls
    /\ factory.op # "none"
    /\ factory.out.ok
    /\ LET made == IF factory.op = "createRules" THEN factory.out.value
                   ELSE <<factory.out.value>>
       IN  \A i \in DOMAIN made : IsInteger(made[i].priority)
    /\ BeginApplyRules(CreatedRules(factory))

FactoryInit == Init /\ table = TEST_USERS /\ regexpOperatorsSupported = TRUE

FactoryNext ==
    \/ \E json \in RawRules : Create(json)
    \/ \E ruleName \in NameArgs : \E match \in MatchArgs : \E apply \in ApplyArgs :
          \E priority \in PriorityArgs : CreateRule(ruleName, match, apply, priority)
    \/ \E rules \in RawLists : CreateRules(rules)
    \/ ApplyCreatedRules
    \/ SkipEmptyApply
    \/ SkipEmptyMatch
    \/ ExecuteUpdate
    \/ Commit
    \/ Return

FactorySpec == FactoryInit /\ [][FactoryNext]_vars

(***************************************************************************)
(* Names on their way through the tracking column: rules made by the       *)
(* factory are applied by an engine with the tracking field configured and *)
(* read back with getRowsWithAppliedRules.                                 *)
(***************************************************************************)
RoundTripNext ==
    \/ SetAppliedRulesField("appliedRules")
    \/ \E ruleName \in NameArgs : \E match \in MatchArgs : \E apply \in ApplyArgs :
          \E priority \in PriorityArgs : CreateRule(ruleName, match, apply, priority)
    \/ \E rules \in RawLists : CreateRules(rules)
    \/ ApplyCreatedRules
    \/ SkipEmptyApply
    \/ SkipEmptyMatch
    \/ ExecuteUpdate
    \/ Commit
    \/ Return
    \/ GetRowsWithAppliedRules(EmptyObject)

RoundTripSpec == FactoryInit /\ [][RoundTripNext]_vars

(***************************************************************************)
(* Properties.                                                             *)
(***************************************************************************)
Positions == 1..Len(rulesArg)

\* rule i of the input array assigns column c (the tracking append aside)
Assigns(i, c) == c \in DOMAIN rulesArg[i].apply /\ c # appliedRulesField

\* the UPDATE of rule i of the input array matched row r and assigned column c
Wrote(i, r, c) ==
    /\ Assigns(i, c)
    /\ \E k \in 1..Len(stmts) : stmts[k].rule = i /\ r \in stmts[k].matched

\* the step executes an UPDATE; LastStmt is its entry in the statement log
Executed == Len(stmts') = Len(stmts) + 1
LastStmt == stmts'[Len(stmts')]

\* text w occurs in text s
Occurs(w, s) ==
    \E i \in 1..(Len(s) + 1) : i + Len(w) - 1 <= Len(s) /\ SubSeq(s, i, i + Len(w) - 1) = w

RECURSIVE SumMatched(_)
SumMatched(log) ==
    IF log = <<>> THEN 0
    ELSE Cardinality(Head(log).matched) + SumMatched(Tail(log))

\* C1: in a completed batch, when two rules of priorities p1 < p2 both matched a
\* row and both assign a column, p2 being the highest priority among the rules
\* that wrote that cell, the cell holds the p2 rule's value, wherever the two
\* rules stand in the input array.
C1_HigherPriorityWins ==
    pc = "done" =>
        \A r \in DOMAIN table, c \in Columns, i, j \in Positions :
            ( /\ Wrote(i, r, c) /\ Wrote(j, r, c)
              /\ rulesArg[i].priority < rulesArg[j].priority
              /\ \A k \in Positions \ {j} :
                    Wrote(k, r, c) => rulesArg[k].priority < rulesArg[j].priority )
            => table[r][c] = rulesArg[j].apply[c]

\* the higher-priority rule stands first in the array and still wins
C1_Witness ==
    /\ pc = "done"
    /\ \E r \in DOMAIN table, c \in Columns, i, j \in Positions :
          /\ j < i
          /\ Wrote(i, r, c) /\ Wrote(j, r, c)
          /\ rulesArg[i].priority < rulesArg[j].priority
          /\ rulesArg[i].apply[c] # rulesArg[j].apply[c]
          /\ table[r][c] = rulesArg[j].apply[c]

\* C2: rules of equal priority execute in array order, and when two of them
\* matched the same row and assign the same column (no rule of higher priority
\* and no later rule of the same priority having written the cell) the cell
\* holds the value of the one later in the array.
C2_StableOrder ==
    /\ \A k1, k2 \in 1..Len(stmts) :
          ( k1 < k2 /\ rulesArg[stmts[k1].rule].priority = rulesArg[stmts[k2].rule].priority )
          => stmts[k1].rule < stmts[k2].rule
    /\ pc = "done" =>
          \A r \in DOMAIN table, c \in Columns, i, j \in Positions :
              ( /\ i < j
                /\ Wrote(i, r, c) /\ Wrote(j, r, c)
                /\ rulesArg[i].priority = rulesArg[j].priority
                /\ \A k \in Positions \ {j} :
                      Wrote(k, r, c) =>
                          \/ rulesArg[k].priority < rulesArg[j].priority
                          \/ rulesArg[k].priority = rulesArg[j].priority /\ k < j )
              => table[r][c] = rulesArg[j].apply[c]

C2_Witness ==
    /\ pc = "done"
    /\ \E r \in DOMAIN table, c \in Columns, i, j \in Positions :
          /\ i < j
          /\ Wrote(i, r, c) /\ Wrote(j, r, c)
          /\ rulesArg[i].priority = rulesArg[j].priority
          /\ rulesArg[i].apply[c] # rulesArg[j].apply[c]
          /\ table[r][c] = rulesArg[j].apply[c]

\* C3: when an UPDATE of the batch fails the call fails and the table is as it
\* was before the call: nothing an earlier rule of the call did remains.
C3_FailureRollsBack ==
    /\ pc = "failed" => table = before /\ trxTable = before
    /\ pc = "running" => table = before

\* the call failed after an earlier rule of it had updated rows and tracking lists
C3_Witness ==
    /\ pc = "failed"
    /\ appliedRulesField # NullField
    /\ \E k \in 1..Len(stmts) :
          \E r \in stmts[k].matched : "status" \in stmts[k].set \/ "priority" \in stmts[k].set

\* C4: the value returned is the sum over the executed rules of the number of
\* rows each rule's UPDATE matched.
C4_SumOfMatches == pc = "done" => result = SumMatched(stmts)

\* a row matched by two rules of the batch is counted twice
C4_Witness ==
    /\ pc = "done"
    /\ \E k1, k2 \in 1..Len(stmts) :
          k1 # k2 /\ stmts[k1].matched = stmts[k2].matched /\ Cardinality(stmts[k1].matched) = 1
    /\ result = 2

\* C5: applyRules([]) returns 0, opens no transaction, issues no statement and
\* leaves the table unchanged.
C5_EmptyBatch ==
    Len(rulesArg) = 0 =>
        /\ pc # "running" /\ pc # "failed"
        /\ result = 0
        /\ ~txOpened
        /\ stmts = <<>>
        /\ table = before

\* an empty call has returned, on an engine with a tracking field configured
C5_Witness ==
    /\ pc = "done" /\ Len(rulesArg) = 0 /\ result = 0
    /\ appliedRulesField # NullField /\ table = TEST_USERS

(***************************************************************************)
(* The outcome of a batch computed in one piece, rule after rule in sorted *)
(* order, for comparisons between batches.                                 *)
(***************************************************************************)
RefStep(rule, st) ==
    IF ~st.ok \/ DOMAIN rule.apply = {} \/ DOMAIN rule.match = {} THEN st
    ELSE LET where == WhereClause(rule, regexpOperatorsSupported)
             upd == UpdateObject(rule, appliedRulesField)
         IN  IF StatementFails(st.tbl, where, upd)
             THEN [ok |-> FALSE, tbl |-> st.tbl, total |-> st.total]
             ELSE [ok |-> TRUE, tbl |-> UpdateTable(st.tbl, where, upd),
                   total |-> st.total + Cardinality(SelectedRows(where, st.tbl))]

RECURSIVE RefRun(_, _, _)
RefRun(rules, order, st) ==
    IF order = <<>> THEN st
    ELSE RefRun(rules, Tail(order), RefStep(rules[Head(order)], st))

Outcome(rules, tbl) ==
    LET st == RefRun(rules, sortedRulesOf(rules), [ok |-> TRUE, tbl |-> tbl, total |-> 0])
    IN  IF st.ok THEN st ELSE [ok |-> FALSE, tbl |-> tbl, total |-> 0]

HasApply(rule) == DOMAIN rule.apply # {}
WithoutEmptyApply(rules) == SelectSeq(rules, HasApply)

\* the loop moves to the next rule and nothing else changes
RuleSkipped ==
    /\ pc' = "running"
    /\ idx' = idx + 1
    /\ UNCHANGED <<table, trxTable, totalAffectedRows, stmts>>

\* C6: a rule with an empty match mapping is never executed: the loop steps over
\* it without changing a row, a tracking list or the count, and no UPDATE without
\* a WHERE clause is ever issued.
C6_EmptyMatchSkipped ==
    /\ [](\A k \in 1..Len(stmts) :
            stmts[k].where # {} /\ DOMAIN rulesArg[stmts[k].rule].match # {})
    /\ [][(InLoop /\ DOMAIN CurrentRule.match = {}) => RuleSkipped]_vars

\* a batch made of an empty-match rule that assigns a column has completed, with
\* tracking configured, and nothing changed
C6_Witness ==
    /\ pc = "done"
    /\ appliedRulesField # NullField
    /\ Len(rulesArg) > 0
    /\ \A i \in Positions : DOMAIN rulesArg[i].match = {} /\ DOMAIN rulesArg[i].apply # {}
    /\ result = 0 /\ stmts = <<>> /\ table = before

\* C7: a rule with an empty apply mapping is skipped even when its match selects
\* rows, and the batch goes on: it ends as the batch without that rule ends (same
\* table, same count, same failure).
C7_EmptyApplySkipped ==
    /\ [](pc = "done" =>
            LET o == Outcome(WithoutEmptyApply(rulesArg), before)
            IN  o.ok /\ o.tbl = table /\ o.total = result)
    /\ [](pc = "failed" => ~Outcome(WithoutEmptyApply(rulesArg), before).ok)
    /\ [][(InLoop /\ DOMAIN CurrentRule.apply = {}) => RuleSkipped]_vars

\* the skipped rule's match selects rows, and another rule of the batch was applied
C7_Witness ==
    /\ pc = "done"
    /\ appliedRulesField # NullField
    /\ \E i \in Positions :
          /\ DOMAIN rulesArg[i].apply = {}
          /\ SelectedRows(WhereClause(rulesArg[i], regexpOperatorsSupported), before) # {}
    /\ result > 0
    /\ table # before

adminOrModerator == admin \o <<"|">> \o moderator

\* the step executes the UPDATE of a rule whose match mapping is m
ExecutedMatch(m) == Executed /\ rulesArg[LastStmt.rule].match = m

\* C8 as stated: match {role: "admin|moderator"} selects the rows whose role is
\* exactly "admin" or "moderator" (those rows and no others).
C8_ExactAlternatives ==
    [][ExecutedMatch("role" :> Str(adminOrModerator)) =>
          LastStmt.matched = {r \in DOMAIN trxTable :
                                trxTable[r].role \in {Str(admin), Str(moderator)}}]_vars

\* C8 (amended): a string match value is a case-sensitive regular expression
\* searched for in the column: match {role: "admin|moderator"} selects exactly the
\* rows whose role contains "admin" or "moderator", hence every row whose role
\* is "admin" or "moderator", and never a row whose role is "Admin" or "ADMIN".
C8_CaseSensitiveSearch ==
    [][ExecutedMatch("role" :> Str(adminOrModerator)) =>
          \A r \in DOMAIN trxTable :
              /\ r \in LastStmt.matched <=>
                    (trxTable[r].role.t = "str" /\
                       (Occurs(admin, trxTable[r].role.s) \/ Occurs(moderator, trxTable[r].role.s)))
              /\ trxTable[r].role \in {Str(admin), Str(moderator)} => r \in LastStmt.matched
              /\ trxTable[r].role \in {Str(Admin), Str(ADMIN)} => r \notin LastStmt.matched]_vars

\* on the rows Admin, admin, ADMIN, administrator the rule selected admin and
\* administrator only
C8_Witness ==
    /\ pc = "done"
    /\ before = CASE_USERS
    /\ \E k \in 1..Len(stmts) :
          /\ rulesArg[stmts[k].rule].match = ("role" :> Str(adminOrModerator))
          /\ stmts[k].matched = {2, 4}

\* C9: a string match value is searched for anywhere in the column value: match
\* {status: 'active'} selects every row whose status contains "active", and on
\* the statuses active, active, inactive, active, pending it reports 4 rows.
C9_UnanchoredSearch ==
    /\ []((pc = "done" /\ before = TEST_USERS /\ rulesArg = <<RulePool[2]>>) => result = 4)
    /\ [][ExecutedMatch("status" :> Str(active)) =>
            LastStmt.matched = {r \in DOMAIN trxTable :
                                  /\ trxTable[r].status.t = "str"
                                  /\ Occurs(active, trxTable[r].status.s)}]_vars

\* the 'inactive' row (the third) was selected and the count is 4
C9_Witness ==
    /\ pc = "done"
    /\ before = TEST_USERS
    /\ rulesArg = <<RulePool[2]>>
    /\ stmts[1].matched = {1, 2, 3, 4}
    /\ result = 4

\* C10: the predicate of a match key is chosen by the type of its value: every
\* string, a numeric-looking one included, becomes a regex predicate and selects
\* by pattern search; every number or boolean becomes an equality and selects
\* only the rows holding that very value.
C10_KindByType ==
    /\ [](\A k \in 1..Len(stmts) :
            /\ \A key \in DOMAIN rulesArg[stmts[k].rule].match :
                  \E term \in stmts[k].where :
                      term.col = key /\ term.val = rulesArg[stmts[k].rule].match[key]
            /\ \A term \in stmts[k].where :
                  /\ term.val.t = "str" <=> term.op \in {"~", "regexp_like"}
                  /\ term.val.t \in {"num", "bool"} <=> term.op = "=")
    /\ [][Executed =>
            \A term \in LastStmt.where, r \in LastStmt.matched :
                IF term.val.t = "str"
                THEN Occurs(term.val.s, trxTable[r][term.col].s)
                     \/ \E alt \in Alternatives(term.val.s) : Occurs(alt, trxTable[r][term.col].s)
                ELSE trxTable[r][term.col] = term.val]_vars

\* the numeric-looking string "90" selected a row whose phone is not "90", and
\* a statement with a number and a boolean key was executed
C10_Witness ==
    /\ pc = "done"
    /\ \E k \in 1..Len(stmts) :
          /\ [col |-> "phone", op |-> IF regexpOperatorsSupported THEN "~" ELSE "regexp_like",
              val |-> Str(<<"9", "0">>)] \in stmts[k].where
          /\ \E r \in stmts[k].matched : before[r].phone # Str(<<"9", "0">>)
    /\ \E k \in 1..Len(stmts) :
          /\ [col |-> "age", op |-> "=", val |-> Num(25)] \in stmts[k].where
          /\ [col |-> "isVerified", op |-> "=", val |-> Bool(TRUE)] \in stmts[k].where

\* row satisfies the predicate of one match key of the rule, taken alone
KeySatisfied(rule, key, row) ==
    EvalTerm(WhereTerm(key, rule.match[key], regexpOperatorsSupported), row)

\* the rows that satisfy the predicate of every match key of the rule
SatisfyEveryKey(rule, tbl) ==
    {r \in DOMAIN tbl : \A key \in DOMAIN rule.match : KeySatisfied(rule, key, tbl[r])}

\* C11: the UPDATE of a rule selects a row if and only if the row satisfies the
\* predicate of every match key of the rule; a row that fails the predicate of
\* any single key is neither changed nor counted.
C11_Conjunction ==
    [][Executed =>
          LET rule == rulesArg[LastStmt.rule]
              sat == SatisfyEveryKey(rule, trxTable)
          IN  /\ LastStmt.matched = sat
              /\ totalAffectedRows' = totalAffectedRows + Cardinality(sat)
              /\ \A r \in DOMAIN trxTable : r \notin sat => trxTable'[r] = trxTable[r]]_vars

\* a rule with the keys age and isVerified updated the rows satisfying both and
\* left alone a verified row of another age
C11_Witness ==
    /\ pc = "done"
    /\ \E k \in 1..Len(stmts) :
          LET m == rulesArg[stmts[k].rule].match
          IN  /\ DOMAIN m = {"age", "isVerified"}
              /\ stmts[k].matched # {}
              /\ \E r \in DOMAIN table \ stmts[k].matched :
                    /\ before[r].age # m["age"]
                    /\ before[r].isVerified = m["isVerified"]
                    /\ table[r] = before[r]

\* the tracking list a cell of the tracking column holds (NULL: no entry)
TrackingList(cell) == IF cell.t = "json" THEN cell.l ELSE <<>>

IsPrefix(p, q) == Len(p) <= Len(q) /\ SubSeq(q, 1, Len(p)) = p

RECURSIVE NamesFor(_, _)
\* the names of the rules of the statement log that matched row r, in log order
NamesFor(r, log) ==
    IF log = <<>> THEN <<>>
    ELSE LET last == log[Len(log)]
             rest == NamesFor(r, SubSeq(log, 1, Len(log) - 1))
         IN  IF r \in last.matched THEN Append(rest, rulesArg[last.rule].ruleName) ELSE rest

\* the statements of the log ran in ascending priority, array order among equals
InSortedOrder(log) ==
    \A j, k \in 1..Len(log) :
        j < k => \/ rulesArg[log[j].rule].priority < rulesArg[log[k].rule].priority
                 \/ /\ rulesArg[log[j].rule].priority = rulesArg[log[k].rule].priority
                    /\ log[j].rule < log[k].rule

\* C12: with a tracking field configured, when an applyRules call completes the
\* tracking list of every row is the list the row had before the call followed
\* by the names of exactly the rules of the call whose UPDATE matched the row, in
\* execution order, which is ascending priority and array order among equal
\* priorities; so applying r1 and then r2 in two calls leaves ["r1", "r2"].
C12_TrackingInExecutionOrder ==
    (pc = "done" /\ FieldConfigured(appliedRulesField)) =>
        /\ InSortedOrder(stmts)
        /\ \A r \in DOMAIN table :
              TrackingList(table[r].appliedRules) =
                  TrackingList(before[r].appliedRules) \o NamesFor(r, stmts)

\* a second call, applying r2 alone, has completed on a row an earlier call had
\* applied r1 to: the row's list reads r1, r2
C12_Witness ==
    /\ pc = "done"
    /\ calls = 1
    /\ Len(rulesArg) = 1
    /\ \E r \in DOMAIN table :
          /\ TrackingList(before[r].appliedRules) = <<"r1">>
          /\ TrackingList(table[r].appliedRules) = <<"r1", "r2">>

\* C13: the tracking column is an append-only log.  When an applyRules call has
\* ended, completed or failed, every row's tracking list has the list the row
\* had before the call as a prefix (so has the list inside the open
\* transaction), and the only step that ever leaves a row with a list that does
\* not extend its previous one is a clearAppliedRules call.
C13_AppendOnly ==
    /\ [](\A r \in DOMAIN table :
            /\ pc \in {"done", "failed"} =>
                  IsPrefix(TrackingList(before[r].appliedRules),
                           TrackingList(table[r].appliedRules))
            /\ pc = "running" =>
                  IsPrefix(TrackingList(table[r].appliedRules),
                           TrackingList(trxTable[r].appliedRules)))
    /\ [][(\E r \in DOMAIN table :
               ~IsPrefix(TrackingList(table[r].appliedRules),
                         TrackingList(table'[r].appliedRules)))
            => (lastCall'.op = "clear" /\ lastCall'.issued = 1)]_vars

\* a call failed after one of its rules had appended its name to a list that an
\* earlier call had left non-empty, and the list is what it was before the call
C13_Witness ==
    /\ pc = "failed"
    /\ stmts # <<>>
    /\ \E r \in stmts[1].matched :
          /\ TrackingList(before[r].appliedRules) # <<>>
          /\ table[r] = before[r]

\* the number of statements of the committed sessions that matched row r
CommittedAppends(r) ==
    LET n(s) == IF sessions[s].pc = "committed"
                THEN Cardinality({k \in 1..Len(sessions[s].log) :
                                     r \in sessions[s].log[k].matched})
                ELSE 0
    IN  n(1) + n(2)

Range(f) == {f[x] : x \in DOMAIN f}

\* C14: the append is evaluated inside the UPDATE on the row being updated, so
\* no interleaving of two concurrent applyRules calls loses an append: whenever
\* transactions have committed, every row's tracking list holds one entry for
\* each committed statement that matched the row, the name of each such rule
\* among them; when both calls have a rule matching the same row and both
\* commit, the row's list contains both names.
C14_NoLostAppend ==
    \A r \in DOMAIN table :
        /\ Len(TrackingList(table[r].appliedRules)) = CommittedAppends(r)
        /\ \A s \in Engines :
              sessions[s].pc = "committed" =>
                  \A k \in 1..Len(sessions[s].log) :
                      r \in sessions[s].log[k].matched =>
                          sessions[s].log[k].name \in Range(TrackingList(table[r].appliedRules))

\* both calls started before either had committed, they applied different rules
\* to the same row, both have committed, and the row's list holds both names
C14_Witness ==
    /\ \A s \in Engines :
          /\ sessions[s].pc = "committed"
          /\ \A r \in DOMAIN table : sessions[s].read[r].appliedRules = Null
    /\ \E r \in DOMAIN table :
          /\ r \in sessions[1].log[1].matched \cap sessions[2].log[1].matched
          /\ sessions[1].log[1].name # sessions[2].log[1].name
          /\ {sessions[1].log[1].name, sessions[2].log[1].name}
                \subseteq Range(TrackingList(table[r].appliedRules))

RECURSIVE TableAfter(_)
\* the table of the call after its first j executed statements, each applied in
\* turn to the rows it matched, starting from the table the call began with
TableAfter(j) ==
    IF j = 0 THEN before
    ELSE LET prev == TableAfter(j - 1)
             upd == UpdateObject(rulesArg[stmts[j].rule], appliedRulesField)
         IN  [r \in DOMAIN prev |->
                 IF r \in stmts[j].matched THEN UpdatedRow(prev[r], upd) ELSE prev[r]]

\* C15: within one applyRules call the UPDATEs are executed one per step, in
\* the order of the sorted rules, inside the transaction the call opened and
\* with nothing committed in between; each statement selects its rows in the
\* table as the earlier statements of the call have left it, so a rule matching
\* a value written by an earlier rule of the batch selects that row.
C15_SequentialInTransaction ==
    /\ [](/\ pc = "running" => trxTable = TableAfter(Len(stmts))
          /\ \A k \in 1..Len(stmts) :
                stmts[k].matched =
                    SatisfyEveryKey(rulesArg[stmts[k].rule], TableAfter(k - 1)))
    /\ [][Executed =>
            /\ pc = "running" /\ txOpened
            /\ LastStmt.rule = sortedRules[idx]
            /\ idx' = idx + 1
            /\ InSortedOrder(stmts')
            /\ table' = table]_vars

\* the second statement of a call selected a row that did not satisfy its match
\* when the call began: the first statement of the call had written the value
C15_Witness ==
    /\ pc = "done"
    /\ Len(stmts) = 2
    /\ \E r \in stmts[1].matched \cap stmts[2].matched :
          r \notin SatisfyEveryKey(rulesArg[stmts[2].rule], before)

\* the step is a clearAppliedRules call that issued its UPDATE
Cleared == lastCall' # lastCall /\ lastCall'.op = "clear" /\ lastCall'.error = "none"

\* the step is a getRowsWithAppliedRules call that issued its SELECT
Fetched == lastCall' # lastCall /\ lastCall'.op = "getRows" /\ lastCall'.error = "none"

\* the cell holds the empty list (and not NULL)
IsEmptyList(cell) == cell.t = "json" /\ cell.l = <<>>

\* the rows whose columns are equal to the values of the filter
EqualTo(filter, tbl) ==
    {r \in DOMAIN tbl : \A key \in DOMAIN filter : tbl[r][key] = filter[key]}

\* C16: clearAppliedRules(table) without a filter leaves every row of the table
\* with the empty list in its tracking column and returns the number of rows of
\* the table, the rows whose list was already empty or NULL included.
C16_ClearAll ==
    [][(Cleared /\ lastCall'.filter = EmptyObject) =>
          /\ \A r \in DOMAIN table' : IsEmptyList(table'[r].appliedRules)
          /\ lastCall'.ret = Len(table)]_vars

\* a table with a row that had a non-empty list and a row that had NULL was
\* cleared without a filter: every list is empty and the count is the row count
C16_Witness ==
    /\ pc = "answered"
    /\ lastCall.op = "clear" /\ lastCall.filter = EmptyObject
    /\ lastCall.ret = Len(table)
    /\ \E r1, r2 \in DOMAIN table :
          /\ TrackingList(before[r1].appliedRules) # <<>>
          /\ before[r2].appliedRules = Null
          /\ IsEmptyList(table[r1].appliedRules) /\ IsEmptyList(table[r2].appliedRules)

\* C17: clearAppliedRules(table, filter) gives the empty list to exactly the rows
\* whose columns are equal to the filter values (a string value is compared for
\* equality, not searched as a pattern), returns the number of those rows, and
\* changes no tracking list of another row and no other column of any row.
C17_ClearFiltered ==
    [][Cleared =>
          LET sel == EqualTo(lastCall'.filter, table)
          IN  /\ \A r \in sel : IsEmptyList(table'[r].appliedRules)
              /\ \A r \in DOMAIN table \ sel : table'[r] = table[r]
              /\ \A r \in DOMAIN table : \A c \in Columns \ {appliedRulesField} :
                    table'[r][c] = table[r][c]
              /\ lastCall'.ret = Cardinality(sel)]_vars

\* a filter with a string value cleared the non-empty list of a row holding that
\* very value and left alone a row whose value only contains it
C17_Witness ==
    /\ pc = "answered"
    /\ lastCall.op = "clear" /\ lastCall.error = "none"
    /\ \E key \in DOMAIN lastCall.filter : \E r1, r2 \in DOMAIN table :
          /\ before[r1][key] = lastCall.filter[key]
          /\ TrackingList(before[r1].appliedRules) # <<>>
          /\ IsEmptyList(table[r1].appliedRules)
          /\ before[r2][key] # lastCall.filter[key]
          /\ Occurs(lastCall.filter[key].s, before[r2][key].s)
          /\ table[r2] = before[r2]
    /\ lastCall.ret = Cardinality(EqualTo(lastCall.filter, before))

\* C18: while the tracking field of the engine has never been set,
\* getRowsWithAppliedRules and clearAppliedRules fail with the configuration
\* error, having issued no statement, and the table is unchanged.
C18_FailFastWhenUnset ==
    [][(pc = "idle" /\ lastCall' # lastCall /\ appliedRulesField = NullField) =>
          /\ lastCall'.op \in {"clear", "getRows"}
          /\ lastCall'.error = ConfigurationError
          /\ lastCall'.issued = 0
          /\ lastCall'.rows = <<>>
          /\ table' = table]_vars

\* clearAppliedRules was rejected on an engine without tracking field, after an
\* applyRules call of that engine had changed the table
C18_Witness ==
    /\ pc = "answered"
    /\ appliedRulesField = NullField
    /\ lastCall.op = "clear"
    /\ lastCall.error = ConfigurationError
    /\ calls = 1
    /\ table # TEST_USERS

\* C20: getRowsWithAppliedRules returns, in table order, exactly the rows whose
\* columns are equal to the filter values (every row without a filter), each
\* with its columns and with appliedRules the ordered list of the names in its
\* tracking column, the empty list when the column is NULL; it changes no row.
C20_RowsWithLists ==
    [][Fetched =>
          LET sel == EqualTo(lastCall'.filter, table)
              out == lastCall'.rows
          IN  /\ {out[i].r : i \in DOMAIN out} = sel
              /\ Len(out) = Cardinality(sel)
              /\ \A i, j \in DOMAIN out : i < j => out[i].r < out[j].r
              /\ \A i \in DOMAIN out :
                    /\ out[i].row = table[out[i].r]
                    /\ out[i].appliedRules = TrackingList(table[out[i].r].appliedRules)
                    /\ DOMAIN out[i].appliedRules = 1..Len(out[i].appliedRules)
              /\ table' = table]_vars

\* a filtered call returned some rows of the table only, one with a non-empty
\* list and one whose tracking column is NULL, with the empty list
C20_Witness ==
    /\ pc = "answered"
    /\ lastCall.op = "getRows" /\ lastCall.error = "none"
    /\ lastCall.filter # EmptyObject
    /\ Len(lastCall.rows) < Len(table)
    /\ \E i, j \in DOMAIN lastCall.rows :
          /\ lastCall.rows[i].appliedRules # <<>>
          /\ lastCall.rows[j].row.appliedRules = Null
          /\ lastCall.rows[j].appliedRules = <<>>

\* C19: the tracking field is unset by default.  As long as setAppliedRulesField
\* (which the callers of the model call with names that trim to appliedRules)
\* has not been called, every UPDATE of applyRules assigns the columns of the
\* rule's apply mapping and no other, and a call leaves the tracking column of
\* every row as it was.
C19_NoTrackingByDefault ==
    /\ []((pc \in {"running", "done", "failed"} /\ appliedRulesField # "appliedRules") =>
            \A r \in DOMAIN table :
                /\ table[r].appliedRules = before[r].appliedRules
                /\ trxTable[r].appliedRules = before[r].appliedRules)
    /\ [][(Executed /\ appliedRulesField # "appliedRules") =>
            LastStmt.set = DOMAIN rulesArg[LastStmt.rule].apply]_vars

\* a call on an engine without tracking field has updated rows, and the
\* tracking column of every row is still NULL
C19_Witness ==
    /\ pc = "done"
    /\ appliedRulesField = NullField
    /\ \E k \in 1..Len(stmts) : \E r \in stmts[k].matched : table[r] # before[r]
    /\ \A r \in DOMAIN table : table[r].appliedRules = Null

\* C21: when a resetResultsTableIfExists call has succeeded, whatever the results
\* table held before, it holds one row per row of the source as the source is
\* now, in the same order, equal to it on every column of the source, with an
\* empty tracking list.
C21_ResetReflectsSource ==
    service.pc = "copied" =>
        /\ Len(table) = Len(source)
        /\ \A i \in DOMAIN source :
              /\ \A c \in Columns : table[i][c] = source[i][c]
              /\ TrackingList(table[i]["applied_rules"]) = <<>>

\* a reset has succeeded on a results table that held the rows of an earlier
\* reset with a rule's effect and its tracking entry, the source having been
\* rewritten in between
C21_Witness ==
    /\ service.pc = "copied"
    /\ source = CASE_USERS
    /\ Len(service.held) = Len(TEST_USERS)
    /\ \E i \in DOMAIN service.held :
          /\ service.held[i].status = Str(vip)
          /\ TrackingList(service.held[i]["applied_rules"]) = <<"r1">>

\* C22: a resetResultsTableIfExists call that has failed leaves the results table
\* as it was when the call began: neither truncated nor partly filled.
C22_FailedResetLeavesSnapshot ==
    service.pc = "failed" => table = service.held

\* everything but the content of the source table
subsystemVars ==
    <<table, trxTable, appliedRulesField, regexpOperatorsSupported, pc, callVars, calls,
      lastCall, sessions, service, factory>>

\* C23: the source table is read-only to the subsystem.  No step of a
\* processRules, resetResultsTableIfExists or applyRules call, successful or
\* failed, changes a row of the source table, and the table processRules hands to
\* applyRules for its UPDATEs is the results table, not the source.
C23_SourceReadOnly ==
    /\ [](service.pc = "apply" =>
             service.applied # service.target /\ Relation(service.applied) = "results")
    /\ [][subsystemVars' # subsystemVars => source' = source]_vars

\* processRules has updated a row of the results table and the source row is
\* as it was
C23_Witness ==
    /\ service.op = "processRules"
    /\ service.pc = "apply"
    /\ pc = "done"
    /\ result > 0
    /\ source = TEST_USERS
    /\ \E i \in DOMAIN table : table[i].status = Str(vip) /\ source[i].status = Str(active)

\* C24: a resetResultsTableIfExists call for a source table that does not exist
\* fails with the error of the database at its first statement, and a
\* processRules call for such a table rejects with it: no applyRules call is
\* made, no UPDATE is executed and the results table is not touched.
C24_MissingSourceFails ==
    (service.op # "none" /\ service.target \notin SourceTables /\ service.pc # "create") =>
        /\ service.pc = "failed"
        /\ service.error = "storage"
        /\ pc = "idle"
        /\ stmts = <<>>
        /\ table = service.held

\* processRules with a non-empty rules array has rejected for a table that does
\* not exist, the results table of 'users' holding rows
C24_Witness ==
    /\ service.op = "processRules"
    /\ service.target = "nonexistent_table"
    /\ service.pc = "failed"
    /\ Len(service.rules) > 0
    /\ Len(table) > 0

\* C30: resetResultsTableIfExists(table) returns the name <table>_results
\* ('users' gives 'users_results'), and the table of that name is the one
\* processRules hands to applyRules.
C30_UnderscoreResultsName ==
    /\ service.pc = "copied" => service.returned = service.target \o "_results"
    /\ service.pc = "apply" => service.applied = service.returned

\* the rules with their stopProcessingOtherRules fields taken away
Unflagged(rules) ==
    [i \in DOMAIN rules |->
        Rule(rules[i].ruleName, rules[i].priority, rules[i].match, rules[i].apply)]

C26_BackendsAgree ==
    [][Executed =>
          SelectedRows(WhereClause(rulesArg[LastStmt.rule], TRUE), trxTable)
              = SelectedRows(WhereClause(rulesArg[LastStmt.rule], FALSE), trxTable)]_vars

\* a rule name that is missing, not a string, or blank
BadName(v) == v.k # "string" \/ v.s \in {"", "   "}

\* an element of the array from which no rule can be made
BadElement(json) == json.k # "object" \/ BadName(Get(json, "ruleName"))

\* the name without the white space around it
Stripped(s) == IF s = " r2 " THEN "r2" ELSE s

\* C27: rule construction validates before any database interaction.  create,
\* createRule and createRules throw when a rule name is missing, not a string or
\* blank after trimming; createRules throws when its argument is not an array,
\* and when one element is invalid it throws and returns no list at all; a rule
\* that is returned carries the trimmed name; after a call that threw, no
\* applyRules call has been started and the table is untouched.
C27_ValidatesNames ==
    /\ factory.op = "createRule" =>
          /\ BadName(factory.args[1]) => ~factory.out.ok
          /\ factory.out.ok => factory.out.value.ruleName = Stripped(factory.args[1].s)
    /\ factory.op = "create" =>
          /\ BadElement(factory.args[1]) => ~factory.out.ok
          /\ factory.out.ok =>
                factory.out.value.ruleName = Stripped(Get(factory.args[1], "ruleName").s)
    /\ factory.op = "createRules" =>
          /\ factory.args[1].k # "array" => ~factory.out.ok
          /\ (factory.args[1].k = "array"
                /\ \E i \in DOMAIN factory.args[1].m : BadElement(factory.args[1].m[i]))
                => ~factory.out.ok /\ factory.out.value = <<>>
          /\ factory.out.ok =>
                \A i \in DOMAIN factory.out.value :
                    factory.out.value[i].ruleName
                        = Stripped(Get(factory.args[1].m[i], "ruleName").s)
    /\ (factory.op # "none" /\ ~factory.out.ok) =>
          pc = "idle" /\ stmts = <<>> /\ table = TEST_USERS

\* createRules has thrown for an array whose first element is a valid rule and
\* whose second element has a blank name
C27_Witness ==
    /\ factory.op = "createRules"
    /\ factory.args[1].k = "array"
    /\ Len(factory.args[1].m) = 2
    /\ ~BadElement(factory.args[1].m[1])
    /\ Get(factory.args[1].m[2], "ruleName") = JsString("   ")
    /\ ~factory.out.ok
    /\ factory.out.error = "Rule name must be a non-empty string"

\* null, undefined or a string in the place of a mapping
NotAnObject(v) == v.k \in {"null", "undefined", "string"}

\* C28: a match or apply argument that is not an object does not fail the
\* construction: the call returns a rule whose match, respectively apply, is the
\* empty mapping, and applyRules executes no UPDATE for a rule whose match or
\* apply is empty.
C28_NonObjectNormalized ==
    /\ (factory.op = "createRule" /\ ~BadName(factory.args[1])) =>
          /\ factory.out.ok
          /\ NotAnObject(factory.args[2]) => factory.out.value.match = EmptyObject
          /\ NotAnObject(factory.args[3]) => factory.out.value.apply = EmptyObject
    /\ (factory.op = "create" /\ ~BadElement(factory.args[1])) =>
          /\ factory.out.ok
          /\ NotAnObject(Get(factory.args[1], "match")) =>
                factory.out.value.match = EmptyObject
          /\ NotAnObject(Get(factory.args[1], "apply")) =>
                factory.out.value.apply = EmptyObject
    /\ \A i \in DOMAIN rulesArg :
          (rulesArg[i].match = EmptyObject \/ rulesArg[i].apply = EmptyObject) =>
              \A k \in DOMAIN stmts : stmts[k].rule # i

\* applyRules has completed without an UPDATE for the rule createRule returned
\* for the match argument 'invalid' and an apply mapping with an entry
C28_Witness ==
    /\ factory.op = "createRule"
    /\ factory.args[2] = JsString("invalid")
    /\ factory.args[3].k = "object"
    /\ factory.out.ok
    /\ factory.out.value.apply # EmptyObject
    /\ pc = "done"
    /\ Len(rulesArg) = 1
    /\ stmts = <<>>
    /\ result = 0
    /\ table = TEST_USERS

\* the rules the factory call has returned
Made ==
    IF factory.op = "none" \/ ~factory.out.ok THEN <<>>
    ELSE IF factory.op = "createRules" THEN factory.out.value
    ELSE <<factory.out.value>>

\* the priority the caller gave for the i-th rule returned (undefined: none)
GivenPriority(i) ==
    CASE factory.op = "createRule" -> factory.args[4]
      [] factory.op = "create" -> Get(factory.args[1], "priority")
      [] OTHER -> Get(factory.args[1].m[i], "priority")

\* C29: every rule returned by create, createRule or createRules has a priority
\* that is an integer >= 0, which is 0 when the caller gave none; in a batch, a
\* rule of priority 0 is executed before every rule of priority >= 1.
C29_PriorityNonNegativeInteger ==
    /\ \A i \in DOMAIN Made :
          /\ Made[i].priority.k = "number"
          /\ Made[i].priority.d = 1
          /\ Made[i].priority.n >= 0
          /\ GivenPriority(i) = Undefined => Made[i].priority = JsNumber(0, 1)
    /\ \A a, b \in DOMAIN sortedRules :
          (rulesArg[sortedRules[a]].priority = 0 /\ rulesArg[sortedRules[b]].priority >= 1)
              => a < b

\* the results table holds a full copy of the source with empty tracking lists
FullCopy(tbl, src) ==
    /\ Len(tbl) = Len(src)
    /\ \A i \in DOMAIN src :
          /\ \A c \in Columns : tbl[i][c] = src[i][c]
          /\ TrackingList(tbl[i]["applied_rules"]) = <<>>

\* the call of processRules resolves
ProcessRulesResolves ==
    service.op = "processRules" /\ service'.op = "none" /\ pc = "done"

\* C31: processRules performs, in this order, the snapshot reset,
\* doPreProcessRules on the results table and applyRules on the results table,
\* and returns the count of applyRules.  While the reset is in progress no
\* UPDATE has been executed; doPreProcessRules follows a completed reset and
\* is given the results table; applyRules begins only after doPreProcessRules
\* and starts from a full copy of the source; the value processRules resolves
\* to is the value applyRules resolved to.  With an empty rules array the
\* snapshot is a full copy of the source still, and 0 is returned.
C31_ProcessRulesOrder ==
    /\ [](service.op = "processRules" =>
             /\ service.pc \in {"create", "truncate", "copy", "copied"} =>
                   pc = "idle" /\ stmts = <<>>
             /\ pc # "idle" =>
                   /\ service.pc = "apply"
                   /\ service.applied = service.name
                   /\ FullCopy(before, source)
             /\ (pc = "done" /\ Len(service.rules) = 0) =>
                   result = 0 /\ FullCopy(table, source))
    /\ [][/\ (service'.op = "processRules" /\ service'.pc = "apply" /\ service.pc # "apply") =>
                 service.pc = "copied" /\ service'.applied = service.name
          /\ (service'.op = "processRules" /\ service'.pc = "copied" /\ service.pc # "copied") =>
                 service.pc = "copy"
          /\ ProcessRulesResolves =>
                 /\ service'.count = result
                 /\ result = SumMatched(stmts)
                 /\ Len(service.rules) = 0 => service'.count = 0]_vars

\* processRules has resolved to a count above 0 after a reset of a results
\* table that held another call's effects
C31_Witness ==
    /\ service.op = "none"
    /\ service.count > 0
    /\ calls >= 2
    /\ \E i \in DOMAIN table : table[i].status = Str(vip) /\ source[i].status = Str(active)

\* processRules with an empty rules array has resolved applyRules on a results
\* table the call itself has filled
C31_EmptyWitness ==
    /\ service.op = "processRules"
    /\ Len(service.rules) = 0
    /\ pc = "done"
    /\ Len(service.held) = 0
    /\ Len(table) = Len(TEST_USERS)

\* statement k of the log is the last one that matched row r and assigned column c
LastToAssign(k, r, c) ==
    /\ r \in stmts[k].matched
    /\ c \in DOMAIN rulesArg[stmts[k].rule].apply
    /\ c # appliedRulesField
    /\ \A j \in (k + 1)..Len(stmts) :
          ~(r \in stmts[j].matched /\ c \in DOMAIN rulesArg[stmts[j].rule].apply)

\* C32: an executed rule changes only the rows satisfying its match, and in
\* those rows only the columns named in its apply mapping, plus the tracking
\* column when one is configured; every other row and column keeps its value.
\* So when the batch has completed, a cell holds the value of the last executed
\* rule that matched its row and assigns its column, however many rules matched
\* the row after it.
C32_OnlyMatchedRowsAndApplyColumns ==
    /\ [][Executed =>
             LET rule == rulesArg[LastStmt.rule]
                 sat == SatisfyEveryKey(rule, trxTable)
             IN  \A r \in DOMAIN trxTable : \A c \in Columns :
                    trxTable'[r][c] # trxTable[r][c] =>
                        /\ r \in sat
                        /\ \/ c \in DOMAIN rule.apply
                           \/ FieldConfigured(appliedRulesField) /\ c = appliedRulesField]_vars
    /\ [](pc = "done" =>
             \A k \in 1..Len(stmts) : \A r \in DOMAIN table : \A c \in Columns :
                 LastToAssign(k, r, c) => table[r][c] = rulesArg[stmts[k].rule].apply[c])

\* r1 gave a row the status vip, r2 matched that row afterwards and assigned
\* another column: the status r1 wrote is there at the end of the batch, and the
\* rows r1 did not match are as they were
C32_Witness ==
    /\ pc = "done"
    /\ Len(stmts) = 2
    /\ appliedRulesField = "appliedRules"
    /\ \E r \in stmts[1].matched \cap stmts[2].matched :
          /\ before[r].status = Str(active)
          /\ table[r].status = Str(vip)
          /\ table[r].priority = Num(10)
          /\ table[r].email = before[r].email
          /\ TrackingList(table[r].appliedRules) = <<"r1", "r2">>
    /\ \E r \in DOMAIN table \ stmts[1].matched : table[r] = before[r]

\* the tracking list of row r of tbl already holds the name
AlreadyApplied(name, tbl, r) ==
    \E i \in DOMAIN TrackingList(tbl[r][appliedRulesField]) :
        TrackingList(tbl[r][appliedRulesField])[i] = name

\* C33: applyRules never consults previously applied rules.  With a tracking
\* field configured, every rule the loop passes is executed, and its UPDATE
\* selects the rows satisfying the rule's match whether or not their tracking
\* lists hold the rule's name already: each of them is counted and has the name
\* appended once more, so a name may stand in a list several times.
C33_AppliedAgain ==
    [][/\ (pc = "running" /\ pc' = "running" /\ idx' # idx) => Executed
       /\ (Executed /\ FieldConfigured(appliedRulesField)) =>
             LET rule == rulesArg[LastStmt.rule]
                 sat == SatisfyEveryKey(rule, trxTable)
             IN  /\ LastStmt.matched = sat
                 /\ totalAffectedRows' = totalAffectedRows + Cardinality(sat)
                 /\ \A r \in sat :
                       TrackingList(trxTable'[r][appliedRulesField]) =
                           Append(TrackingList(trxTable[r][appliedRulesField]),
                                  rule.ruleName)]_vars

\* a second call has applied r1 to a row whose list held r1 from the first
\* call: the row was counted and its list reads r1, r1
C33_Witness ==
    /\ pc = "done"
    /\ appliedRulesField = "appliedRules"
    /\ calls = 1
    /\ result = 1
    /\ Len(stmts) = 1
    /\ rulesArg[stmts[1].rule].ruleName = "r1"
    /\ \E r \in stmts[1].matched :
          /\ AlreadyApplied("r1", before, r)
          /\ TrackingList(table[r].appliedRules) = <<"r1", "r1">>

\* the rows of tbl in which the columns the rule matches with null are null, and
\* which satisfy the predicates of its other keys
NullKeysAreNull(rule, tbl) ==
    {r \in DOMAIN tbl :
        \A c \in DOMAIN rule.match :
            IF rule.match[c] = Null THEN tbl[r][c] = Null
            ELSE KeySatisfied(rule, c, tbl[r])}

\* C34: a match value of null is handled by exact equality, never by a regular
\* expression and never by skipping the key: the UPDATE of a rule with match
\* {c: null} has an equality term for c and selects exactly the rows whose
\* column c is null.
C34_NullMatchSelectsNullRows ==
    [][Executed =>
          LET rule == rulesArg[LastStmt.rule]
          IN  (\E c \in DOMAIN rule.match : rule.match[c] = Null) =>
                 /\ {term.col : term \in LastStmt.where} = DOMAIN rule.match
                 /\ \A term \in LastStmt.where : term.val = Null => term.op = "="
                 /\ LastStmt.matched = NullKeysAreNull(rule, trxTable)]_vars

\* what the code does with such a rule: the term is column = NULL, which is true
\* of no row, so the UPDATE selects nothing whatever the table holds
C34_NullEqualitySelectsNothing ==
    [][Executed =>
          LET rule == rulesArg[LastStmt.rule]
          IN  (\E c \in DOMAIN rule.match : rule.match[c] = Null) =>
                 /\ {term.col : term \in LastStmt.where} = DOMAIN rule.match
                 /\ \A term \in LastStmt.where : term.val = Null => term.op = "="
                 /\ LastStmt.matched = {}]_vars

\* the rule with match {phone: null} was executed on a table with a row whose
\* phone is null and has completed with no row updated
C34_Witness ==
    /\ pc = "done"
    /\ Len(stmts) = 1
    /\ rulesArg[stmts[1].rule].match = ("phone" :> Null)
    /\ \E r \in DOMAIN before : before[r].phone = Null
    /\ result = 0
    /\ table = before

\* the positions of the rules in ascending order of priority, rules of equal
\* priority in the order of the array
AscendingStable(rules) ==
    CHOOSE o \in [1..Len(rules) -> 1..Len(rules)] :
        \A i, j \in 1..Len(rules) :
            i < j => \/ rules[o[i]].priority < rules[o[j]].priority
                     \/ rules[o[i]].priority = rules[o[j]].priority /\ o[i] < o[j]

RECURSIVE SingleCalls(_, _, _)
\* applyRules([r], t) called for the rules at the positions of order, one call
\* after the other, each on the table the call before it has committed
SingleCalls(rules, order, st) ==
    IF order = <<>> THEN st
    ELSE LET call == Outcome(<<rules[Head(order)]>>, st.tbl)
         IN  SingleCalls(rules, Tail(order),
                         [ok |-> st.ok /\ call.ok, tbl |-> call.tbl,
                          total |-> st.total + call.total])

\* C35: when no UPDATE fails, applyRules(rules, t) leaves the table, tracking
\* lists included, in the state in which the calls applyRules([r], t), made
\* once for each rule r in ascending order of priority (equal priorities in
\* array order), leave it, and returns the sum of what those calls return.
C35_BatchAsSingleCalls ==
    pc = "done" =>
        LET single == SingleCalls(rulesArg, AscendingStable(rulesArg),
                                  [ok |-> TRUE, tbl |-> before, total |-> 0])
        IN  /\ single.ok
            /\ table = single.tbl
            /\ result = single.total

\* a batch of two rules given in descending order of priority has completed
\* with a tracking field configured, the rule executed second having matched a
\* row the rule executed first had matched; single calls in the order of the
\* array would have left another table
C35_Witness ==
    /\ pc = "done"
    /\ FieldConfigured(appliedRulesField)
    /\ Len(stmts) = 2
    /\ sortedRules = <<2, 1>>
    /\ stmts[1].matched \cap stmts[2].matched # {}
    /\ result >= 2
    /\ table # Outcome(<<rulesArg[2]>>, Outcome(<<rulesArg[1]>>, before).tbl).tbl

RECURSIVE AppendedEntries(_, _, _)
\* the number of entries the tracking lists of rows 1..n of tbl have more than
\* those of old
AppendedEntries(tbl, old, n) ==
    IF n = 0 THEN 0
    ELSE Len(TrackingList(tbl[n][appliedRulesField]))
           - Len(TrackingList(old[n][appliedRulesField]))
           + AppendedEntries(tbl, old, n - 1)

\* C36: with a tracking field configured, the value a completed applyRules
\* call returns is the number of entries appended to the tracking lists of all
\* rows during the call: every matched row of every executed rule has gained
\* one entry, the name of the rule.
C36_CountIsAppendedEntries ==
    (pc = "done" /\ FieldConfigured(appliedRulesField)) =>
        /\ result = AppendedEntries(table, before, Len(table))
        /\ \A r \in DOMAIN table :
              TrackingList(table[r][appliedRulesField]) =
                  TrackingList(before[r][appliedRulesField]) \o NamesFor(r, stmts)

\* a call has completed in which one rule matched several rows and one row was
\* matched by two rules
C36_Witness ==
    /\ pc = "done"
    /\ FieldConfigured(appliedRulesField)
    /\ Len(stmts) = 2
    /\ Cardinality(stmts[1].matched) >= 2
    /\ stmts[1].matched \cap stmts[2].matched # {}
    /\ result >= 3
    /\ \E r \in DOMAIN table : Len(TrackingList(table[r][appliedRulesField])) = 2

\* C37: with a tracking field configured, a rule whose apply mapping names the
\* tracking column cannot overwrite the log.  The append expression replaces
\* that assignment in the SET list, so the UPDATE leaves every row it matched
\* with its previous tracking list followed by the name of the rule.
C37_ApplyCannotOverwriteLog ==
    [][(/\ Executed
        /\ FieldConfigured(appliedRulesField)
        /\ appliedRulesField \in DOMAIN rulesArg[LastStmt.rule].apply) =>
          \A r \in LastStmt.matched :
              trxTable'[r][appliedRulesField] =
                  JsonList(Append(TrackingList(trxTable[r][appliedRulesField]),
                                  rulesArg[LastStmt.rule].ruleName))]_vars

\* the rule that assigns the tracking column a list of its own was executed
\* after another rule had left its name in the list of the row: the list holds
\* both names and not the list of the apply mapping
C37_Witness ==
    /\ pc = "done"
    /\ appliedRulesField = "appliedRules"
    /\ Len(stmts) = 2
    /\ rulesArg[stmts[2].rule].apply = ("appliedRules" :> JsonList(<<"forged">>))
    /\ \E r \in stmts[1].matched \cap stmts[2].matched :
          table[r].appliedRules = JsonList(<<"role-staff-rule", "forge-log">>)

\* the names of the rules the factory call has returned
CreatedNames == {CreatedRules(factory)[j].ruleName : j \in DOMAIN CreatedRules(factory)}

\* C38: rule names round-trip through the tracking column unchanged.  After
\* the rules a factory call returned have been applied to rows with empty
\* tracking lists, getRowsWithAppliedRules returns for every row the names the
\* tracking column of the row holds, as many entries as rules were applied to
\* it and each the exact name of a rule, also when the name reads like a JSON
\* literal: a quoted string, a number or a bracketed list.
C38_NamesRoundTrip ==
    [][(Fetched /\ factory.op # "none" /\ factory.out.ok) =>
          \A i \in DOMAIN lastCall'.rows :
              LET out == lastCall'.rows[i]
              IN  /\ out.appliedRules = TrackingList(table[out.r].appliedRules)
                  /\ \A k \in DOMAIN out.appliedRules :
                        out.appliedRules[k] \in CreatedNames]_vars

\* the names come back as they are unless they are JSON texts: what is returned
\* for each entry is the entry as normalizeOne reads it
C38_NamesNormalized ==
    [][(Fetched /\ factory.op # "none" /\ factory.out.ok) =>
          \A i \in DOMAIN lastCall'.rows :
              LET out == lastCall'.rows[i]
                  held == TrackingList(table[out.r].appliedRules)
              IN  /\ Len(out.appliedRules) = Len(held)
                  /\ \A k \in DOMAIN held :
                        /\ held[k] \in CreatedNames
                        /\ out.appliedRules[k] = normalizeOne(held[k])]_vars

\* the rule createRule made with the name "r1", quotes included, was applied
\* to a row and getRowsWithAppliedRules has returned the row with the entry r1
C38_Witness ==
    /\ pc = "answered"
    /\ lastCall.op = "getRows"
    /\ lastCall.error = "none"
    /\ factory.op = "createRule"
    /\ factory.out.ok
    /\ factory.out.value.ruleName = "\"r1\""
    /\ \E i \in DOMAIN lastCall.rows :
          /\ TrackingList(table[lastCall.rows[i].r].appliedRules) = <<"\"r1\"">>
          /\ lastCall.rows[i].appliedRules = <<"r1">>

C39_CompletedWitness ==
    /\ service.op = "processRules"
    /\ pc = "done"
    /\ sortedRules = <<2, 1>>
    /\ Len(stmts) = 2
    /\ result >= 2
    /\ rulesArg = ServiceRulesOf(<<2, 1>>)

====
